---- MODULE Spec2Model ----
(***************************************************************************)
(* View-coordination core of the multitasking-framework prototypes.        *)
(*                                                                         *)
(* The repository holds three generations of the same prototype, each a    *)
(* separate page with its own globals.  The variable `variant` says which  *)
(* page is running; it is chosen once and never changes:                   *)
(*                                                                         *)
(*   "windows"  src/unnamed/part_000 lines 1-452: fixed windows, a Set per *)
(*              context, clicks call toggleSelection.                      *)
(*   "tuples"   src/prototype/app.js lines 1-497: panels over string       *)
(*              scopes, a Set per context, clicks call setSelection,       *)
(*              updatePanelContext changes scope and state.                *)
(*   "domain"   src/prototype/app.js lines 499-1293: panels over domain    *)
(*              scopes {type, id}, one id per context, updatePanelState    *)
(*              changes the state only.  (part_000 lines 454-1164 is the   *)
(*              same code without the Viewport presentation.)              *)
(*                                                                         *)
(* Every action is one synchronous event handler, run to completion.       *)
(* Layout (x, y, width, height, z-index) and DOM nodes are not modelled;   *)
(* what a panel's DOM shows of the selection is (`shown`, `note`).         *)
(***************************************************************************)
EXTENDS Naturals, Sequences, FiniteSets, TLC

VARIABLES
    variant,             \* which prototype page is running
    panels,              \* the registry: `panels` (app.js) / `windows` (part_000)
    panelIdCounter,      \* last panel id issued
    selectionByContext,  \* the selection store
    contextColors,       \* colour given to each context key seen
    colorIndex,          \* number of colours handed out
    lastOp,              \* history: the handler that ran last
    prevOp,              \* history: the handler that ran before it
    notified,            \* history: callbacks invoked by the last handler, in order
    lastSet,             \* history: per key, the item of the latest setSelection
    touched,             \* history: keys passed to setSelection / toggleSelection
    issued,              \* history: panel ids that were ever in the registry
    closed,              \* history: ids of the panels removePanel took out
    formerKeys,          \* history: per reassigned panel id, the keys it has left
    query,               \* the direct calls made: << >> in Spec, << call >> in
                         \* CallSpec, the keys in order of first call in ColourSpec
    reply,               \* << >>, or << r >>: what the call returned (CallSpec,
                         \* ColourSpec), the Set-based run (StoreSpec), the run of
                         \* createSampleWorld (WorldSpec)
    opCount              \* history: handlers run so far

vars == << variant, panels, panelIdCounter, selectionByContext, contextColors,
           colorIndex, lastOp, prevOp, notified, lastSet, touched, issued, closed,
           formerKeys, query, reply, opCount >>

-----------------------------------------------------------------------------
(* Bounds of the model *)

MaxOps == 3        \* handlers run after page load

NumObjects == 2    \* length kept of every sample-data array

KeyWindow == 2     \* unseen context keys a direct getContextColor call chooses from

-----------------------------------------------------------------------------
(* JavaScript values *)

NULL == "<null>"

UNDEFINED == "<undefined>"

Take(s, n) == SubSeq(s, 1, IF n < Len(s) THEN n ELSE Len(s))

Range(s) == { s[i] : i \in 1..Len(s) }

SelectSeqIn(s, S) == SelectSeq(s, LAMBDA e : e \in S)

Put(f, k, val) == [ x \in (DOMAIN f) \cup {k} |-> IF x = k THEN val ELSE f[x] ]

EmptyMap == [ x \in {} |-> NULL ]

\* A JavaScript Set keeps insertion order: a sequence without repetitions.
SetClear(s) == << >>

SetHas(s, e) == e \in Range(s)

SetAdd(s, e) == IF SetHas(s, e) THEN s ELSE Append(s, e)

SetDelete(s, e) == SelectSeq(s, LAMBDA x : x # e)

-----------------------------------------------------------------------------
(* Configuration and sample data *)

\* app.js:12-14 (the "tuples" page)
SCOPES == << "Game", "Asset", "Script" >>

STATES == << "Edit", "Browse", "Preview" >>

PRESENTATIONS == << "Viewport", "List", "Properties" >>

\* app.js:17-26 and app.js:515-518
CONTEXT_COLORS ==
    << "#5b8def", "#ef5b5b", "#5bef8f", "#efb85b",
       "#b85bef", "#5befc4", "#ef5bb8", "#c4ef5b" >>

\* part_000:178-190, ids only, the first NumObjects of each array
demoObjects == Take(<< "obj1", "obj2", "obj3", "obj4", "obj5" >>, NumObjects)

assetObjects == Take(<< "asset1", "asset2", "asset3" >>, NumObjects)

\* app.js:44-50, ids only
objects == Take(<< "obj1", "obj2", "obj3", "obj4", "obj5" >>, NumObjects)

(* The world of createSampleWorld (model.js:275-466), cut down to account  *)
(* jimjam, game obby, place obby-lobby and jimjam's inventory; the arrays  *)
(* workspace and the inventory keep their first two children.             *)
world ==
    [ accounts |->
        ( "jimjam" :> [ name |-> "jimjam", games |-> << "obby" >>,
                        inventory |-> "inv-jimjam" ] ),
      inventoriesById |->
        ( "inv-jimjam" :>
            [ accountId |-> "jimjam", assets |-> << "pkg-ui", "pkg-physics" >> ] ),
      gamesById |->
        ( "obby" :> [ name |-> "Obby Adventure",
                      assets |-> << "obby-lobby", "obby-gm" >> ] ),
      placesById |->
        ( "obby-lobby" :>
            [ name |-> "Main Lobby",
              instances |-> << "lobby-workspace", "lobby-light" >>,
              references |-> << "obby-lobby-script" >> ] ),
      assetsById |->
        ( "obby-lobby" :> [ name |-> "Main Lobby", type |-> "place" ] @@
          "obby-lobby-script" :> [ name |-> "LobbyManager", type |-> "script" ] @@
          "obby-gm" :> [ name |-> "GameManager", type |-> "script" ] @@
          "pkg-ui" :> [ name |-> "UI Kit", type |-> "package" ] @@
          "pkg-physics" :> [ name |-> "Physics Utils", type |-> "package" ] ),
      instancesById |->
        ( "lobby-workspace" :>
            [ name |-> "Workspace", type |-> "folder",
              children |-> << "lobby-spawn", "lobby-baseplate" >> ] @@
          "lobby-spawn" :>
            [ name |-> "SpawnLocation", type |-> "spawn", children |-> << >> ] @@
          "lobby-baseplate" :>
            [ name |-> "Baseplate", type |-> "part", children |-> << >> ] @@
          "lobby-light" :>
            [ name |-> "SunLight", type |-> "light", children |-> << >> ] ) ]

\* Map.get: the node's id stands for the node object, UNDEFINED for a miss.
MapGet(m, id) == IF id \in DOMAIN m THEN id ELSE UNDEFINED

createScope(type, id) == [ type |-> type, id |-> id ]

scopeKey(scope) == scope.type \o ":" \o scope.id

getNodeByScope(scope) ==
    CASE scope.type = "account"   -> MapGet(world.accounts, scope.id)
      [] scope.type = "game"      -> MapGet(world.gamesById, scope.id)
      [] scope.type = "inventory" -> MapGet(world.inventoriesById, scope.id)
      [] scope.type = "place"     -> MapGet(world.placesById, scope.id)
      [] scope.type = "asset"     -> MapGet(world.assetsById, scope.id)
      [] scope.type = "instance"  -> MapGet(world.instancesById, scope.id)
      [] OTHER                    -> NULL

\* What a call that returns an array yields when it raises a TypeError instead.
THROWS == << "<TypeError>" >>

\* Mutant of getChildrenForScope: without the "if (!node) return []" guard
\* the method call on a missing node raises.
getChildrenForScopeUnguarded(scope) ==
    LET node == getNodeByScope(scope) IN
    IF node \in {NULL, UNDEFINED}
    THEN IF scope.type \in { "account", "game", "inventory", "place", "instance" }
         THEN THROWS ELSE << >>
    ELSE CASE scope.type = "account"   -> world.accounts[node].games
           [] scope.type = "game"      -> world.gamesById[node].assets
           [] scope.type = "inventory" -> world.inventoriesById[node].assets
           [] scope.type = "place"     -> world.placesById[node].instances
           [] scope.type = "asset"     -> << >>
           [] scope.type = "instance"  -> world.instancesById[node].children
           [] OTHER                    -> << >>

getChildrenForScope(scope) ==
    LET node == getNodeByScope(scope) IN
    IF node \in {NULL, UNDEFINED} THEN << >>
    ELSE CASE scope.type = "account"   -> world.accounts[node].games
           [] scope.type = "game"      -> world.gamesById[node].assets
           [] scope.type = "inventory" -> world.inventoriesById[node].assets
           [] scope.type = "place"     -> world.placesById[node].instances
           [] scope.type = "asset"     -> << >>
           [] scope.type = "instance"  -> world.instancesById[node].children
           [] OTHER                    -> << >>

\* model.js:254-269
scopeLabel(scope) ==
    LET node == getNodeByScope(scope) IN
    IF node \in {NULL, UNDEFINED} THEN scope.type \o ":" \o scope.id
    ELSE CASE scope.type = "account"   -> world.accounts[node].name
           [] scope.type = "game"      -> world.gamesById[node].name
           [] scope.type = "inventory" ->
                LET account == MapGet(world.accounts, world.inventoriesById[node].accountId)
                IN  (IF account = UNDEFINED \/ world.accounts[account].name = ""
                     THEN "Unknown" ELSE world.accounts[account].name)
                    \o "'s Inventory"
           [] scope.type = "place"     -> world.placesById[node].name
           [] scope.type = "asset"     -> world.assetsById[node].name
           [] scope.type = "instance"  -> world.instancesById[node].name
           [] OTHER                    -> scope.id

\* createViewportContent.collectInstances (app.js:1056-1064): pre-order walk
RECURSIVE collectInstances(_)
collectInstances(instances) ==
    IF instances = << >> THEN << >>
    ELSE << Head(instances) >>
         \o collectInstances(world.instancesById[Head(instances)].children)
         \o collectInstances(Tail(instances))

-----------------------------------------------------------------------------
(* Context keys *)

\* part_000:28-30 and app.js:56-58: scope and state are strings
getContextKeyTuple(scope, state) == scope \o "-" \o state

\* Mutant of getContextKeyDomain: the key is built from the node id alone.
getContextKeyDomainById(scope, state) == scope.id \o "|" \o state

\* app.js:525-527 and part_000:499-501: scope is {type, id}
getContextKeyDomain(scope, state) == scopeKey(scope) \o "|" \o state

getContextKey(v, scope, state) ==
    IF v = "domain" THEN getContextKeyDomain(scope, state)
    ELSE getContextKeyTuple(scope, state)

-----------------------------------------------------------------------------
(* The selection store.  `sel` is selectionByContext: a function whose     *)
(* domain is the keys that have an entry.                                  *)

\* Set-based pages.  The store after getSelection(contextKey); the call
\* returns the Set stored under contextKey in that store.
getSelection(sel, contextKey) ==
    IF contextKey \in DOMAIN sel THEN sel ELSE Put(sel, contextKey, << >>)

isSelected(sel, contextKey, itemId) ==
    SetHas(getSelection(sel, contextKey)[contextKey], itemId)

getSelectedItem(sel, contextKey) ==
    LET selection == getSelection(sel, contextKey)[contextKey] IN
    IF Len(selection) > 0 THEN selection[1] ELSE NULL

\* Mutants of setSelectionWrite: the Set is not cleared first; a null item
\* leaves the Set as it was.
setSelectionWriteNoClear(sel, contextKey, itemId) ==
    LET sel1 == getSelection(sel, contextKey) IN
    Put(sel1, contextKey,
        IF itemId # NULL THEN SetAdd(sel1[contextKey], itemId) ELSE sel1[contextKey])

setSelectionWriteKeepOnNull(sel, contextKey, itemId) ==
    LET sel1 == getSelection(sel, contextKey) IN
    IF itemId = NULL THEN sel1
    ELSE Put(sel1, contextKey, SetAdd(SetClear(sel1[contextKey]), itemId))

\* The store once setSelection has cleared the Set and added itemId
\* (app.js:76-80), before the broadcast.
setSelectionWrite(sel, contextKey, itemId) ==
    LET sel1 == getSelection(sel, contextKey)
        cleared == SetClear(sel1[contextKey])
    IN  Put(sel1, contextKey, IF itemId # NULL THEN SetAdd(cleared, itemId) ELSE cleared)

\* Mutants of toggleSelectionWrite: a selected item is never deselected; a
\* new item is added without clearing the Set.
toggleSelectionWriteNeverDeselect(sel, contextKey, itemId) ==
    LET sel1 == getSelection(sel, contextKey) IN
    Put(sel1, contextKey, SetAdd(SetClear(sel1[contextKey]), itemId))

toggleSelectionWriteAdditive(sel, contextKey, itemId) ==
    LET sel1 == getSelection(sel, contextKey)
        selection == sel1[contextKey]
    IN  Put(sel1, contextKey,
            IF SetHas(selection, itemId) THEN SetDelete(selection, itemId)
            ELSE SetAdd(selection, itemId))

\* The store once toggleSelection has updated the Set (part_000:49-55).
toggleSelectionWrite(sel, contextKey, itemId) ==
    LET sel1 == getSelection(sel, contextKey)
        selection == sel1[contextKey]
    IN  Put(sel1, contextKey,
            IF SetHas(selection, itemId) THEN SetDelete(selection, itemId)
            ELSE SetAdd(SetClear(selection), itemId))

\* Mutant of getSelectionDomain: the "|| null" is missing.
getSelectionDomainNoDefault(sel, contextKey) ==
    IF contextKey \in DOMAIN sel THEN sel[contextKey] ELSE UNDEFINED

\* Single-id page: selectionByContext.get(contextKey) || null
getSelectionDomain(sel, contextKey) ==
    LET got == IF contextKey \in DOMAIN sel THEN sel[contextKey] ELSE UNDEFINED IN
    IF got \in {UNDEFINED, NULL, ""} THEN NULL ELSE got

\* Mutant of setSelectionDomainWrite: one slot shared by every context.
setSelectionDomainWriteShared(sel, contextKey, itemId) ==
    [ x \in (DOMAIN sel) \cup {contextKey} |-> itemId ]

\* selectionByContext.set(contextKey, itemId)
setSelectionDomainWrite(sel, contextKey, itemId) == Put(sel, contextKey, itemId)

\* What a reader of context key k is told is selected, on either store.
SelectedIn(v, sel, k) ==
    IF v = "domain" THEN getSelectionDomain(sel, k) ELSE getSelectedItem(sel, k)

-----------------------------------------------------------------------------
(* Panels and what they render *)

NewPanel(id, scope, state, presentation, contextKey, color) ==
    [ id |-> id, scope |-> scope, state |-> state, presentation |-> presentation,
      contextKey |-> contextKey, color |-> color,
      onSelectionChange |-> NULL,   \* NULL, or the name of the closure registered
      shown |-> {},                 \* item ids the panel's DOM marks as selected
      note |-> "" ]                 \* placeholder text the panel shows, if any

\* The item elements a panel's content holds, in DOM order.
Items(v, p) ==
    CASE v = "windows" ->
            IF p.presentation \in {"Tree", "3D"} THEN demoObjects
            ELSE IF p.presentation = "Text" THEN assetObjects
            ELSE << >>
      [] v = "tuples" ->
            IF p.presentation \in {"Viewport", "List"} THEN objects ELSE << >>
      [] v = "domain" ->
            IF p.presentation = "Viewport"
            THEN IF p.scope.type = "place" /\ p.scope.id \in DOMAIN world.placesById
                 THEN SelectSeq(collectInstances(world.placesById[p.scope.id].instances),
                                LAMBDA i : world.instancesById[i].type # "folder")
                 ELSE << >>
            ELSE IF p.presentation \in {"List", "Grid"}
                 THEN getChildrenForScope(p.scope)
                 ELSE << >>

\* The array a Properties panel searches for the selected id.
PropertiesSource(v, p) ==
    CASE v = "windows" -> demoObjects
      [] v = "tuples"  -> objects
      [] v = "domain"  -> getChildrenForScope(p.scope)

NoSelectionText(v) == IF v = "windows" THEN "No object selected" ELSE "No selection"

NotFoundText(v) ==
    CASE v = "windows" -> "No object selected"
      [] v = "tuples"  -> "No selection"
      [] v = "domain"  -> "Item not found"

\* Mutant of RunClosure: render() returns on an id it cannot find without
\* replacing what the Properties panel shows.
RunClosureKeepsOnMiss(v, p, sel) ==
    LET selected == SelectedIn(v, sel, p.contextKey)
        sel1 == IF v = "domain" THEN sel ELSE getSelection(sel, p.contextKey)
        marked == IF v = "domain"
                  THEN { e \in Range(Items(v, p)) : e = selected }
                  ELSE { e \in Range(Items(v, p)) : isSelected(sel, p.contextKey, e) }
    IN
    CASE p.onSelectionChange = "highlight" ->
            [ panel |-> [ p EXCEPT !.shown = marked ], sel |-> sel1, seen |-> selected ]
      [] p.onSelectionChange = "highlight+preview" ->
            [ panel |-> [ p EXCEPT !.shown = marked,
                                   !.note = IF selected \in Range(assetObjects)
                                            THEN selected
                                            ELSE "Select a file to preview..." ],
              sel |-> sel1, seen |-> selected ]
      [] p.onSelectionChange = "render" ->
            [ panel |->
                IF selected = NULL
                THEN [ p EXCEPT !.shown = {}, !.note = NoSelectionText(v) ]
                ELSE IF selected \notin Range(PropertiesSource(v, p))
                THEN p
                ELSE [ p EXCEPT !.shown = {selected}, !.note = "" ],
              sel |-> sel1, seen |-> selected ]

\* Mutant of RunClosure: marks the selected item, never unmarks the others.
RunClosureAddOnly(v, p, sel) ==
    LET selected == SelectedIn(v, sel, p.contextKey) IN
    [ panel |-> [ p EXCEPT !.shown = p.shown \cup
                      ({selected} \cap (Range(Items(v, p)) \cup Range(PropertiesSource(v, p)))) ],
      sel |-> IF v = "domain" THEN sel ELSE getSelection(sel, p.contextKey),
      seen |-> selected ]

(* One run of panel p's selection-change closure against store `sel`:      *)
(* [panel, sel, seen], seen being the selected id the closure read.        *)
RunClosure(v, p, sel) ==
    LET selected == SelectedIn(v, sel, p.contextKey)
        sel1 == IF v = "domain" THEN sel ELSE getSelection(sel, p.contextKey)
        marked == IF v = "domain"
                  THEN { e \in Range(Items(v, p)) : e = selected }
                  ELSE { e \in Range(Items(v, p)) : isSelected(sel, p.contextKey, e) }
    IN
    CASE p.onSelectionChange = "highlight" ->
            [ panel |-> [ p EXCEPT !.shown = marked ], sel |-> sel1, seen |-> selected ]
      [] p.onSelectionChange = "highlight+preview" ->
            [ panel |-> [ p EXCEPT !.shown = marked,
                                   !.note = IF selected \in Range(assetObjects)
                                            THEN selected
                                            ELSE "Select a file to preview..." ],
              sel |-> sel1, seen |-> selected ]
      [] p.onSelectionChange = "render" ->
            [ panel |->
                IF selected = NULL
                THEN [ p EXCEPT !.shown = {}, !.note = NoSelectionText(v) ]
                ELSE IF selected \notin Range(PropertiesSource(v, p))
                THEN [ p EXCEPT !.shown = {}, !.note = NotFoundText(v) ]
                ELSE [ p EXCEPT !.shown = {selected}, !.note = "" ],
              sel |-> sel1, seen |-> selected ]

-----------------------------------------------------------------------------
(* The program state threaded through a handler:                           *)
(*   [panels, panelIdCounter, sel, colors, colorIndex, log]                *)
(* log lists the closure runs of the handler so far.                       *)

LogEntry(p, seen, via) ==
    [ id |-> p.id, key |-> p.contextKey, seen |-> seen, via |-> via ]

\* panel.onSelectionChange() for the panel at position i
InvokeCallback(S, v, i, via) ==
    LET r == RunClosure(v, S.panels[i], S.sel) IN
    [ S EXCEPT !.panels[i] = r.panel,
               !.sel = r.sel,
               !.log = Append(S.log, LogEntry(S.panels[i], r.seen, via)) ]

\* Mutant of broadcastFrom: without the "&& panel.onSelectionChange" test the
\* call of a null callback raises and ends the forEach.
RECURSIVE broadcastStopsAtMissing(_, _, _, _)
broadcastStopsAtMissing(S, v, contextKey, i) ==
    IF i > Len(S.panels) THEN S
    ELSE IF S.panels[i].contextKey = contextKey
         THEN IF S.panels[i].onSelectionChange = NULL THEN S
              ELSE broadcastStopsAtMissing(InvokeCallback(S, v, i, "broadcast"),
                                           v, contextKey, i + 1)
         ELSE broadcastStopsAtMissing(S, v, contextKey, i + 1)

\* Mutant of broadcastFrom: the context key is not compared.
RECURSIVE broadcastToAll(_, _, _, _)
broadcastToAll(S, v, contextKey, i) ==
    IF i > Len(S.panels) THEN S
    ELSE IF S.panels[i].onSelectionChange # NULL
         THEN broadcastToAll(InvokeCallback(S, v, i, "broadcast"), v, contextKey, i + 1)
         ELSE broadcastToAll(S, v, contextKey, i + 1)

\* The forEach of broadcastSelectionChange, from position i on.
RECURSIVE broadcastFrom(_, _, _, _)
broadcastFrom(S, v, contextKey, i) ==
    IF i > Len(S.panels) THEN S
    ELSE IF S.panels[i].contextKey = contextKey /\ S.panels[i].onSelectionChange # NULL
         THEN broadcastFrom(InvokeCallback(S, v, i, "broadcast"), v, contextKey, i + 1)
         ELSE broadcastFrom(S, v, contextKey, i + 1)

\* Mutant of broadcastSelectionChange: the registry is walked from its last
\* panel to its first.
RECURSIVE broadcastDownFrom(_, _, _, _)
broadcastDownFrom(S, v, contextKey, i) ==
    IF i < 1 THEN S
    ELSE IF S.panels[i].contextKey = contextKey /\ S.panels[i].onSelectionChange # NULL
         THEN broadcastDownFrom(InvokeCallback(S, v, i, "broadcast"), v, contextKey, i - 1)
         ELSE broadcastDownFrom(S, v, contextKey, i - 1)

broadcastReversed(S, v, contextKey) == broadcastDownFrom(S, v, contextKey, Len(S.panels))

\* Mutant of broadcastSelectionChange: the loop starts one panel late.
broadcastSkippingFirst(S, v, contextKey) == broadcastFrom(S, v, contextKey, 2)

broadcastSelectionChange(S, v, contextKey) == broadcastFrom(S, v, contextKey, 1)

\* setSelection of the Set-based pages: write, then broadcast.
setSelection(S, v, contextKey, itemId) ==
    broadcastSelectionChange(
        [ S EXCEPT !.sel = setSelectionWrite(S.sel, contextKey, itemId) ], v, contextKey)

toggleSelection(S, v, contextKey, itemId) ==
    broadcastSelectionChange(
        [ S EXCEPT !.sel = toggleSelectionWrite(S.sel, contextKey, itemId) ], v, contextKey)

\* Mutant of setSelectionDomain: the broadcast runs before the write.
setSelectionDomainBroadcastFirst(S, v, contextKey, itemId) ==
    LET S1 == broadcastSelectionChange(S, v, contextKey) IN
    [ S1 EXCEPT !.sel = setSelectionDomainWrite(S1.sel, contextKey, itemId) ]

\* Mutant of setSelectionDomain: no broadcast when the stored id is unchanged.
setSelectionDomainSkipUnchanged(S, v, contextKey, itemId) ==
    IF getSelectionDomain(S.sel, contextKey) = itemId
    THEN [ S EXCEPT !.sel = setSelectionDomainWrite(S.sel, contextKey, itemId) ]
    ELSE broadcastSelectionChange(
             [ S EXCEPT !.sel = setSelectionDomainWrite(S.sel, contextKey, itemId) ],
             v, contextKey)

\* setSelection of the single-id page
setSelectionDomain(S, v, contextKey, itemId) ==
    broadcastSelectionChange(
        [ S EXCEPT !.sel = setSelectionDomainWrite(S.sel, contextKey, itemId) ],
        v, contextKey)

\* Mutant of getContextColor: the "has(contextKey)" test is missing, every call
\* hands out the next colour.
getContextColorAlwaysNext(S, contextKey) ==
    [ S EXCEPT !.colors = Put(S.colors, contextKey,
                              CONTEXT_COLORS[(S.colorIndex % Len(CONTEXT_COLORS)) + 1]),
               !.colorIndex = S.colorIndex + 1 ]

\* Mutant of getContextColor: colorIndex is incremented before it is used.
getContextColorPreIncrement(S, contextKey) ==
    IF contextKey \in DOMAIN S.colors THEN S
    ELSE [ S EXCEPT !.colors = Put(S.colors, contextKey,
                                   CONTEXT_COLORS[((S.colorIndex + 1) % Len(CONTEXT_COLORS)) + 1]),
                    !.colorIndex = S.colorIndex + 1 ]

getContextColor(S, contextKey) ==
    IF contextKey \in DOMAIN S.colors THEN S
    ELSE [ S EXCEPT !.colors = Put(S.colors, contextKey,
                                   CONTEXT_COLORS[(S.colorIndex % Len(CONTEXT_COLORS)) + 1]),
                    !.colorIndex = S.colorIndex + 1 ]

(* create*Content for the panel at position i: a fresh DOM (nothing marked *)
(* selected), the closure registered unless the renderer returns early,    *)
(* and for Properties the first render().                                  *)
createContent(S, v, i) ==
    LET p == [ S.panels[i] EXCEPT !.shown = {}, !.note = "" ]
        With(q) == [ S EXCEPT !.panels[i] = q ]
        pres == p.presentation
    IN
    CASE pres = "Properties" ->
            InvokeCallback(With([ p EXCEPT !.onSelectionChange = "render" ]), v, i, "render")
      [] pres = "Text" /\ v = "windows" ->
            With([ p EXCEPT !.onSelectionChange = "highlight+preview",
                            !.note = "Select a file to preview..." ])
      [] pres \in {"Tree", "3D"} /\ v = "windows" ->
            With([ p EXCEPT !.onSelectionChange = "highlight" ])
      [] pres \in {"Viewport", "List"} /\ v = "tuples" ->
            With([ p EXCEPT !.onSelectionChange = "highlight" ])
      [] pres = "Viewport" /\ v = "domain" ->
            IF p.scope.type # "place"
            THEN With([ p EXCEPT !.note = "Viewport only available for Places" ])
            ELSE IF getNodeByScope(p.scope) \in {NULL, UNDEFINED}
            THEN With([ p EXCEPT !.note = "Place not found" ])
            ELSE IF collectInstances(world.placesById[p.scope.id].instances) = << >>
            THEN With([ p EXCEPT !.note = "No instances" ])
            ELSE With([ p EXCEPT !.onSelectionChange = "highlight" ])
      [] pres \in {"List", "Grid"} /\ v = "domain" ->
            IF getChildrenForScope(p.scope) = << >>
            THEN With([ p EXCEPT !.note = "No items" ])
            ELSE With([ p EXCEPT !.onSelectionChange = "highlight" ])
      [] OTHER -> With(p)

\* renderPanel: header and chrome are not modelled, the content is.
renderPanel(S, v, i) == createContent(S, v, i)

\* createWindow (part_000:80-124): the content is built before the push.
\* A window has no id or colour; `id` is its position, which never changes.
createWindow(S, v, config) ==
    LET contextKey == getContextKey(v, config.scope, config.state)
        windowObj == NewPanel(Len(S.panels) + 1, config.scope, config.state,
                              config.presentation, contextKey, NULL)
    IN  createContent([ S EXCEPT !.panels = Append(S.panels, windowObj) ],
                      v, Len(S.panels) + 1)

\* Mutant of createPanel: the id is the registry's new length, the counter
\* is not used.
createPanelIdFromLength(S, v, config) ==
    LET id == Len(S.panels) + 1
        contextKey == getContextKey(v, config.scope, config.state)
        S1 == getContextColor(S, contextKey)
        panel == NewPanel(id, config.scope, config.state, config.presentation,
                          contextKey, S1.colors[contextKey])
    IN  renderPanel([ S1 EXCEPT !.panels = Append(S1.panels, panel) ],
                    v, Len(S1.panels) + 1)

createPanel(S, v, config) ==
    LET id == S.panelIdCounter + 1
        contextKey == getContextKey(v, config.scope, config.state)
        S1 == getContextColor([ S EXCEPT !.panelIdCounter = id ], contextKey)
        panel == NewPanel(id, config.scope, config.state, config.presentation,
                          contextKey, S1.colors[contextKey])
    IN  renderPanel([ S1 EXCEPT !.panels = Append(S1.panels, panel) ],
                    v, Len(S1.panels) + 1)

\* panels.findIndex(p => p.id === panelId); 0 stands for -1
FindIndex(ps, panelId) ==
    IF \E i \in 1..Len(ps) : ps[i].id = panelId
    THEN CHOOSE i \in 1..Len(ps) :
            ps[i].id = panelId /\ \A j \in 1..(i - 1) : ps[j].id # panelId
    ELSE 0

Splice(ps, index) == SubSeq(ps, 1, index - 1) \o SubSeq(ps, index + 1, Len(ps))

\* Mutant of removePanel: closing the last panel of a context drops the
\* context's entry from the selection store.
removePanelClearsOrphan(S, v, panelId) ==
    LET index == FindIndex(S.panels, panelId) IN
    IF index = 0 THEN S
    ELSE LET rest == Splice(S.panels, index)
             key == S.panels[index].contextKey
         IN  [ S EXCEPT !.panels = rest,
                        !.sel = IF \E i \in 1..Len(rest) : rest[i].contextKey = key
                                THEN S.sel
                                ELSE [ k \in (DOMAIN S.sel) \ {key} |-> S.sel[k] ] ]

\* Mutant of removePanel: without the "index === -1" guard, splice(-1, 1)
\* takes the last panel out.
removePanelUnguarded(S, v, panelId) ==
    LET index == FindIndex(S.panels, panelId) IN
    IF index = 0
    THEN [ S EXCEPT !.panels = SubSeq(S.panels, 1, Len(S.panels) - 1) ]
    ELSE [ S EXCEPT !.panels = Splice(S.panels, index) ]

\* Mutant of removePanel: the panel's element is removed from the page, the
\* panel stays in the registry.
removePanelDetachOnly(S, v, panelId) == S

removePanel(S, v, panelId) ==
    LET index == FindIndex(S.panels, panelId) IN
    IF index = 0 THEN S
    ELSE [ S EXCEPT !.panels = Splice(S.panels, index) ]

\* Mutant of updatePanelContext: the key is derived before panel.scope is
\* assigned, from the scope the panel had.
updatePanelContextKeyFromOldScope(S, v, panelId, newScope, newState) ==
    LET index == FindIndex(S.panels, panelId) IN
    IF index = 0 THEN S
    ELSE LET contextKey == getContextKey(v, S.panels[index].scope, newState)
             S1 == getContextColor(S, contextKey)
         IN  renderPanel(
                 [ S1 EXCEPT !.panels[index].scope = newScope,
                             !.panels[index].state = newState,
                             !.panels[index].contextKey = contextKey,
                             !.panels[index].color = S1.colors[contextKey] ],
                 v, index)

\* app.js:143-158
updatePanelContext(S, v, panelId, newScope, newState) ==
    LET index == FindIndex(S.panels, panelId) IN
    IF index = 0 THEN S
    ELSE LET contextKey == getContextKey(v, newScope, newState)
             S1 == getContextColor(S, contextKey)
         IN  renderPanel(
                 [ S1 EXCEPT !.panels[index].scope = newScope,
                             !.panels[index].state = newState,
                             !.panels[index].contextKey = contextKey,
                             !.panels[index].color = S1.colors[contextKey] ],
                 v, index)

\* Mutant of updatePanelState: the panel is taken out of the registry and
\* pushed again, as createPanel would.
updatePanelStateReopens(S, v, panelId, newState) ==
    LET index == FindIndex(S.panels, panelId) IN
    IF index = 0 THEN S
    ELSE LET contextKey == getContextKey(v, S.panels[index].scope, newState)
             S1 == getContextColor(S, contextKey)
             panel == [ S1.panels[index] EXCEPT !.state = newState,
                                                !.contextKey = contextKey,
                                                !.color = S1.colors[contextKey] ]
         IN  renderPanel(
                 [ S1 EXCEPT !.panels = Append(Splice(S1.panels, index), panel) ],
                 v, Len(S1.panels))

\* Mutant of updatePanelState: the context key is not derived again, so the
\* panel stays subscribed to the context it was opened in.
updatePanelStateKeepsSubscription(S, v, panelId, newState) ==
    LET index == FindIndex(S.panels, panelId) IN
    IF index = 0 THEN S
    ELSE renderPanel([ S EXCEPT !.panels[index].state = newState ], v, index)

\* app.js:881-891
updatePanelState(S, v, panelId, newState) ==
    LET index == FindIndex(S.panels, panelId) IN
    IF index = 0 THEN S
    ELSE LET contextKey == getContextKey(v, S.panels[index].scope, newState)
             S1 == getContextColor(S, contextKey)
         IN  renderPanel(
                 [ S1 EXCEPT !.panels[index].state = newState,
                             !.panels[index].contextKey = contextKey,
                             !.panels[index].color = S1.colors[contextKey] ],
                 v, index)

-----------------------------------------------------------------------------
(* Page load *)

Variants == { "windows", "tuples", "domain" }

EmptyState ==
    [ panels |-> << >>, panelIdCounter |-> 0, sel |-> EmptyMap,
      colors |-> EmptyMap, colorIndex |-> 0, log |-> << >> ]

Config(scope, state, presentation) ==
    [ scope |-> scope, state |-> state, presentation |-> presentation ]

lobbyScope == createScope("place", "obby-lobby")

obbyScope == createScope("game", "obby")

invScope == createScope("inventory", "inv-jimjam")

\* initDemo (part_000:393-449), init (app.js:481-495), init (app.js:1260-1290)
InitialConfigs(v) ==
    CASE v = "windows" ->
            << Config("Game", "Edit", "Tree"), Config("Game", "Edit", "3D"),
               Config("Game", "Edit", "Properties"), Config("Asset", "Edit", "Text") >>
      [] v = "tuples" ->
            << Config("Game", "Edit", "Viewport"), Config("Game", "Edit", "List"),
               Config("Asset", "Browse", "List"), Config("Asset", "Browse", "Properties") >>
      [] v = "domain" ->
            << Config(lobbyScope, "Edit", "Viewport"), Config(lobbyScope, "Edit", "List"),
               Config(lobbyScope, "Edit", "Properties"), Config(obbyScope, "Browse", "List"),
               Config(invScope, "Browse", "Grid") >>

RECURSIVE CreateAll(_, _, _)
CreateAll(S, v, configs) ==
    IF configs = << >> THEN S
    ELSE CreateAll(IF v = "windows" THEN createWindow(S, v, Head(configs))
                   ELSE createPanel(S, v, Head(configs)),
                   v, Tail(configs))

PageLoad(v) == CreateAll(EmptyState, v, InitialConfigs(v))

Op(name, key, item, id, before) ==
    [ op |-> name, key |-> key, item |-> item, id |-> id, before |-> before ]

NoOp == Op("load", "", NULL, 0, NULL)

Init ==
    /\ variant \in Variants
    /\ LET S == PageLoad(variant) IN
        /\ panels = S.panels
        /\ panelIdCounter = S.panelIdCounter
        /\ selectionByContext = S.sel
        /\ contextColors = S.colors
        /\ colorIndex = S.colorIndex
    /\ lastOp = NoOp
    /\ prevOp = NoOp
    /\ notified = << >>
    /\ lastSet = EmptyMap
    /\ touched = {}
    /\ issued = { panels[i].id : i \in 1..Len(panels) }
    /\ closed = {}
    /\ formerKeys = EmptyMap
    /\ query = << >>
    /\ reply = << >>
    /\ opCount = 0

-----------------------------------------------------------------------------
(* Event handlers *)

Cur ==
    [ panels |-> panels, panelIdCounter |-> panelIdCounter, sel |-> selectionByContext,
      colors |-> contextColors, colorIndex |-> colorIndex, log |-> << >> ]

\* Positions of the panels whose (scope, state) the handler result S changed.
Reassigned(S) ==
    { i \in 1..Len(panels) :
        \E j \in 1..Len(S.panels) :
            /\ S.panels[j].id = panels[i].id
            /\ << S.panels[j].scope, S.panels[j].state >> # << panels[i].scope, panels[i].state >> }

\* The handler's result becomes the next state; the history records it.
Recorded(S, op) ==
    /\ panels' = S.panels
    /\ panelIdCounter' = S.panelIdCounter
    /\ selectionByContext' = S.sel
    /\ contextColors' = S.colors
    /\ colorIndex' = S.colorIndex
    /\ notified' = S.log
    /\ lastOp' = op
    /\ prevOp' = lastOp
    /\ lastSet' = IF op.op = "setSelection" THEN Put(lastSet, op.key, op.item) ELSE lastSet
    /\ touched' = IF op.op \in {"setSelection", "toggleSelection"}
                  THEN touched \cup {op.key} ELSE touched
    /\ issued' = issued \cup { S.panels[j].id : j \in 1..Len(S.panels) }
    /\ closed' = IF op.op = "removePanel"
                 THEN closed \cup ({op.id} \cap { panels[i].id : i \in 1..Len(panels) })
                 ELSE closed
    /\ formerKeys' =
          [ id \in (DOMAIN formerKeys) \cup { panels[i].id : i \in Reassigned(S) } |->
              (IF id \in DOMAIN formerKeys THEN formerKeys[id] ELSE {})
              \cup { getContextKey(variant, panels[i].scope, panels[i].state) :
                       i \in { m \in Reassigned(S) : panels[m].id = id } } ]
    /\ opCount' = opCount + 1
    /\ UNCHANGED variant

Becomes(S, op) == Recorded(S, op) /\ UNCHANGED << query, reply >>

Before(k) == SelectedIn(variant, selectionByContext, k)

\* Inputs offered to createPanel by the add-panel / add-view button.
NewPanelConfigs(v) ==
    CASE v = "tuples" ->
            { Config("Game", "Edit", "Properties"), Config("Game", "Edit", "List"),
              Config("Script", "Preview", "Viewport") }
      [] v = "domain" ->
            { Config(obbyScope, "Browse", "Grid"), Config(obbyScope, "Browse", "Viewport"),
              Config(invScope, "Browse", "Properties"),
              Config(createScope("asset", "obby-gm"), "Edit", "Grid") }
      [] OTHER -> {}

\* The menu choices tried, out of SCOPES and STATES (app.js:246, 252) and
\* out of the domain page's states (app.js:968).
MenuScopes == { "Game", "Asset" }

MenuStates == { "Browse", "Edit" }

\* part_000:209-211, 251-254, 345-347: click on an item of a window
ToggleClick(i, item) ==
    /\ variant = "windows"
    /\ opCount < MaxOps
    /\ i \in 1..Len(panels)
    /\ item \in Range(Items(variant, panels[i]))
    /\ LET k == panels[i].contextKey IN
       Becomes(toggleSelection(Cur, variant, k, item),
               Op("toggleSelection", k, item, panels[i].id, Before(k)))

\* app.js:345-348, 379-381, 1108-1111, 1142, 1171: click on an item of a panel
SelectClick(i, item) ==
    /\ variant \in {"tuples", "domain"}
    /\ opCount < MaxOps
    /\ i \in 1..Len(panels)
    /\ panels[i].onSelectionChange = "highlight"
    /\ item \in Range(Items(variant, panels[i]))
    /\ LET k == panels[i].contextKey IN
       Becomes(IF variant = "tuples" THEN setSelection(Cur, variant, k, item)
               ELSE setSelectionDomain(Cur, variant, k, item),
               Op("setSelection", k, item, panels[i].id, Before(k)))

\* app.js:353-355, 1115: click on the empty canvas of a viewport
CanvasClick(i) ==
    /\ variant \in {"tuples", "domain"}
    /\ opCount < MaxOps
    /\ i \in 1..Len(panels)
    /\ panels[i].presentation = "Viewport"
    /\ panels[i].onSelectionChange = "highlight"
    /\ LET k == panels[i].contextKey IN
       Becomes(IF variant = "tuples" THEN setSelection(Cur, variant, k, NULL)
               ELSE setSelectionDomain(Cur, variant, k, NULL),
               Op("setSelection", k, NULL, panels[i].id, Before(k)))

\* app.js:483-488, 1268-1273
AddPanel(config) ==
    /\ variant \in {"tuples", "domain"}
    /\ opCount < MaxOps
    /\ config \in NewPanelConfigs(variant)
    /\ LET k == getContextKey(variant, config.scope, config.state) IN
       Becomes(createPanel(Cur, variant, config),
               Op("createPanel", k, NULL, panelIdCounter + 1, Before(k)))

\* app.js:189-192, 926-929: the close button
ClosePanel(i) ==
    /\ variant \in {"tuples", "domain"}
    /\ opCount < MaxOps
    /\ i \in 1..Len(panels)
    /\ LET k == panels[i].contextKey IN
       Becomes(removePanel(Cur, variant, panels[i].id),
               Op("removePanel", k, NULL, panels[i].id, Before(k)))

\* app.js:261-266: one of the two selects of the panel menu changed
ChangeContext(i, newScope, newState) ==
    /\ variant = "tuples"
    /\ opCount < MaxOps
    /\ i \in 1..Len(panels)
    /\ newScope \in MenuScopes
    /\ newState \in MenuStates
    /\ (newScope = panels[i].scope) # (newState = panels[i].state)
    /\ LET k == getContextKey(variant, newScope, newState) IN
       Becomes(updatePanelContext(Cur, variant, panels[i].id, newScope, newState),
               Op("updatePanelContext", k, NULL, panels[i].id, Before(k)))

\* app.js:980-982: the state select of the panel menu changed
ChangeState(i, newState) ==
    /\ variant = "domain"
    /\ opCount < MaxOps
    /\ i \in 1..Len(panels)
    /\ newState \in MenuStates
    /\ newState # panels[i].state
    /\ LET k == getContextKey(variant, panels[i].scope, newState) IN
       Becomes(updatePanelState(Cur, variant, panels[i].id, newState),
               Op("updatePanelState", k, NULL, panels[i].id, Before(k)))

\* The ids of the open panels.
OpenIds == { panels[i].id : i \in 1..Len(panels) }

\* Ids no open panel has: those of closed panels, and the next one to issue.
StaleIds == (closed \cup { panelIdCounter + 1 }) \ OpenIds

\* removePanel called with an id the registry does not hold (the functions are
\* globals of the page; the panel's own buttons go away with the panel).
CloseUnknown(id) ==
    /\ variant \in {"tuples", "domain"}
    /\ opCount < MaxOps
    /\ id \in StaleIds
    /\ Becomes(removePanel(Cur, variant, id), Op("removePanel", "", NULL, id, NULL))

\* updatePanelContext / updatePanelState called with such an id; the other
\* arguments are not read before the function returns.
ReassignUnknown(id) ==
    /\ variant \in {"tuples", "domain"}
    /\ opCount < MaxOps
    /\ id \in StaleIds
    /\ IF variant = "tuples"
       THEN Becomes(updatePanelContext(Cur, variant, id, "Asset", "Browse"),
                    Op("updatePanelContext", "", NULL, id, NULL))
       ELSE Becomes(updatePanelState(Cur, variant, id, "Browse"),
                    Op("updatePanelState", "", NULL, id, NULL))

ItemIds ==
    Range(demoObjects) \cup Range(assetObjects) \cup Range(objects)
    \cup DOMAIN world.instancesById \cup DOMAIN world.assetsById

Next ==
    \/ \E i \in 1..Len(panels), item \in ItemIds : ToggleClick(i, item)
    \/ \E i \in 1..Len(panels), item \in ItemIds : SelectClick(i, item)
    \/ \E i \in 1..Len(panels) : CanvasClick(i)
    \/ \E config \in NewPanelConfigs(variant) : AddPanel(config)
    \/ \E i \in 1..Len(panels) : ClosePanel(i)
    \/ \E i \in 1..Len(panels), sc \in MenuScopes, st \in MenuStates :
            ChangeContext(i, sc, st)
    \/ \E i \in 1..Len(panels), st \in MenuStates : ChangeState(i, st)
    \/ \E id \in StaleIds : CloseUnknown(id)
    \/ \E id \in StaleIds : ReassignUnknown(id)

Spec == Init /\ [][Next]_vars

-----------------------------------------------------------------------------
(* Direct calls of the pure functions.  A second specification: the page   *)
(* has loaded, one call is made with arguments drawn from the sets below,  *)
(* and its result is recorded.                                             *)

\* The kinds getNodeByScope knows (model.js:211-216).
ScopeKinds == { "account", "game", "inventory", "place", "asset", "instance" }

\* The ids registered in the world's indexes.
NodeIds ==
    DOMAIN world.accounts \cup DOMAIN world.gamesById \cup DOMAIN world.inventoriesById
    \cup DOMAIN world.placesById \cup DOMAIN world.assetsById
    \cup DOMAIN world.instancesById

\* The (scope, state) arguments getContextKey is given on page v.
KeyInputs(v) ==
    IF v = "domain"
    THEN { [ scope |-> createScope(t, id), state |-> st ] :
             t \in ScopeKinds, id \in NodeIds, st \in { "Browse", "Edit", "Preview" } }
    ELSE { [ scope |-> sc, state |-> st ] : sc \in Range(SCOPES), st \in Range(STATES) }

\* Scopes handed to the lookups: known and unknown kinds, known and unknown ids.
ProbeScopes ==
    { createScope(t, id) :
        t \in ScopeKinds \cup { "folder", "script", "" },
        id \in NodeIds \cup { "missing", "" } }

CallInit ==
    /\ variant \in Variants
    /\ LET S == PageLoad(variant) IN
        /\ panels = S.panels
        /\ panelIdCounter = S.panelIdCounter
        /\ selectionByContext = S.sel
        /\ contextColors = S.colors
        /\ colorIndex = S.colorIndex
    /\ lastOp = NoOp
    /\ prevOp = NoOp
    /\ notified = << >>
    /\ lastSet = EmptyMap
    /\ touched = {}
    /\ issued = { panels[i].id : i \in 1..Len(panels) }
    /\ closed = {}
    /\ formerKeys = EmptyMap
    /\ opCount = 0
    /\ reply = << >>
    /\ \/ query \in { << [ fn |-> "getContextKey", a |-> a, b |-> b ] >> :
                        a \in KeyInputs(variant), b \in KeyInputs(variant) }
       \/ /\ variant = "domain"
          /\ query \in { << [ fn |-> "lookup", scope |-> sc ] >> : sc \in ProbeScopes }

\* getContextKey called on two argument pairs
CallGetContextKey ==
    /\ reply = << >>
    /\ query[1].fn = "getContextKey"
    /\ reply' = << [ keys |-> << getContextKey(variant, query[1].a.scope, query[1].a.state),
                                getContextKey(variant, query[1].b.scope, query[1].b.state) >> ] >>
    /\ UNCHANGED << variant, panels, panelIdCounter, selectionByContext, contextColors,
                    colorIndex, lastOp, prevOp, notified, lastSet, touched, issued,
                    closed, formerKeys, query, opCount >>

\* getNodeByScope, getChildrenForScope and scopeLabel called on one scope
CallLookup ==
    /\ reply = << >>
    /\ query[1].fn = "lookup"
    /\ reply' = << [ node |-> getNodeByScope(query[1].scope),
                     children |-> getChildrenForScope(query[1].scope),
                     label |-> scopeLabel(query[1].scope) ] >>
    /\ UNCHANGED << variant, panels, panelIdCounter, selectionByContext, contextColors,
                    colorIndex, lastOp, prevOp, notified, lastSet, touched, issued,
                    closed, formerKeys, query, opCount >>

CallNext == CallGetContextKey \/ CallLookup

CallSpec == CallInit /\ [][CallNext]_vars

-----------------------------------------------------------------------------
(* getContextColor called directly, from the state the script leaves before *)
(* init(): an empty contextColors and colorIndex = 0.  query lists the keys  *)
(* in the order they were first passed, reply holds the last call.           *)

\* The context keys of a page, scope by scope and state by state.
ColourKeys(v) ==
    IF v = "tuples"
    THEN [ n \in 1..(Len(SCOPES) * Len(STATES)) |->
             getContextKey(v, SCOPES[((n - 1) \div Len(STATES)) + 1],
                              STATES[((n - 1) % Len(STATES)) + 1]) ]
    ELSE LET scopes == << lobbyScope, obbyScope, invScope >> IN
         [ n \in 1..(Len(scopes) * Len(STATES)) |->
             getContextKey(v, scopes[((n - 1) \div Len(STATES)) + 1],
                              STATES[((n - 1) % Len(STATES)) + 1]) ]

ColourInit ==
    /\ variant \in { "tuples", "domain" }
    /\ panels = EmptyState.panels
    /\ panelIdCounter = EmptyState.panelIdCounter
    /\ selectionByContext = EmptyState.sel
    /\ contextColors = EmptyState.colors
    /\ colorIndex = EmptyState.colorIndex
    /\ lastOp = NoOp
    /\ prevOp = NoOp
    /\ notified = << >>
    /\ lastSet = EmptyMap
    /\ touched = {}
    /\ issued = {}
    /\ closed = {}
    /\ formerKeys = EmptyMap
    /\ opCount = 0
    /\ query = << >>
    /\ reply = << >>

\* getContextColor(contextKey)
CallGetContextColor ==
    \E contextKey \in Range(query) \cup
            Range(Take(SelectSeq(ColourKeys(variant), LAMBDA k : k \notin Range(query)),
                       KeyWindow)) :
        LET S == getContextColor(Cur, contextKey) IN
        /\ contextColors' = S.colors
        /\ colorIndex' = S.colorIndex
        /\ query' = IF contextKey \in Range(query) THEN query ELSE Append(query, contextKey)
        /\ reply' = << [ key |-> contextKey, color |-> S.colors[contextKey] ] >>
        /\ UNCHANGED << variant, panels, panelIdCounter, selectionByContext, lastOp, prevOp,
                        notified, lastSet, touched, issued, closed, formerKeys, opCount >>

ColourNext == CallGetContextColor

ColourSpec == ColourInit /\ [][ColourNext]_vars

-----------------------------------------------------------------------------
(* The two stores side by side.  The domain page runs on its single-id     *)
(* store (panels, selectionByContext, notified); reply[1] is the same       *)
(* registry run on the Set-based store of app.js:68-99, its closures        *)
(* reading through isSelected / getSelectedItem.  Every call of             *)
(* setSelection(contextKey, itemId) is made on both.                        *)

\* Keys passed: those of the open panels and one no panel is bound to.
StoreKeys ==
    { getContextKey("domain", lobbyScope, "Edit"), getContextKey("domain", obbyScope, "Browse"),
      getContextKey("domain", invScope, "Browse"), getContextKey("domain", invScope, "Edit") }

\* Item ids passed: children of the place and of the inventory, or null.
StoreItems ==
    { NULL } \cup Range(Take(getChildrenForScope(lobbyScope), NumObjects))
             \cup Range(Take(getChildrenForScope(invScope), 1))

StoreInit ==
    /\ variant = "domain"
    /\ LET S == PageLoad(variant) IN
        /\ panels = S.panels
        /\ panelIdCounter = S.panelIdCounter
        /\ selectionByContext = S.sel
        /\ contextColors = S.colors
        /\ colorIndex = S.colorIndex
        /\ reply = << [ S EXCEPT !.sel = EmptyMap, !.log = << >> ] >>
    /\ lastOp = NoOp
    /\ prevOp = NoOp
    /\ notified = << >>
    /\ lastSet = EmptyMap
    /\ touched = {}
    /\ issued = { panels[i].id : i \in 1..Len(panels) }
    /\ closed = {}
    /\ formerKeys = EmptyMap
    /\ opCount = 0
    /\ query = << >>

\* setSelection(contextKey, itemId) on the single-id store and on the Set-based one
CallSetSelection ==
    \E contextKey \in StoreKeys, itemId \in StoreItems :
        /\ opCount < MaxOps
        /\ Recorded(setSelectionDomain(Cur, "domain", contextKey, itemId),
                    Op("setSelection", contextKey, itemId, 0, Before(contextKey)))
        /\ reply' = << setSelection([ reply[1] EXCEPT !.log = << >> ],
                                    "tuples", contextKey, itemId) >>
        /\ UNCHANGED query

StoreNext == CallSetSelection

StoreSpec == StoreInit /\ [][StoreNext]_vars

-----------------------------------------------------------------------------
(* createSampleWorld run statement by statement (model.js:275-466).        *)
(* reply[1] is the run: pc, the local variables (env), the objects created *)
(* so far (heap, an object's reference being its position; 0 is no object) *)
(* and the World under construction, whose indices map ids to references.  *)
(* An array field a class does not declare is kept empty.                  *)

Blank ==
    [ class |-> "", id |-> "", name |-> "", type |-> UNDEFINED,
      parentId |-> UNDEFINED, accountId |-> UNDEFINED,
      children |-> << >>, instances |-> << >>, references |-> << >>,
      assets |-> << >>, games |-> << >>, inventory |-> 0 ]

\* model.js:45-52
NewInstance(id, name, type) ==
    [ Blank EXCEPT !.class = "Instance", !.id = id, !.name = name, !.type = type,
                   !.parentId = NULL ]

\* model.js:62-69
NewPlace(id, name) ==
    [ Blank EXCEPT !.class = "Place", !.id = id, !.name = name, !.type = "place",
                   !.parentId = NULL ]

\* model.js:92-97
NewAsset(id, name, type) ==
    [ Blank EXCEPT !.class = "Asset", !.id = id, !.name = name, !.type = type,
                   !.parentId = NULL ]

\* model.js:101-106
NewGame(id, name, accountId) ==
    [ Blank EXCEPT !.class = "Game", !.id = id, !.name = name, !.accountId = accountId ]

\* model.js:130-134
NewInventory(id, accountId) ==
    [ Blank EXCEPT !.class = "Inventory", !.id = id, !.accountId = accountId ]

\* model.js:148-153: the account, whose inventory is the object created next
NewAccount(id, name, inventory) ==
    [ Blank EXCEPT !.class = "Account", !.id = id, !.name = name, !.inventory = inventory ]

\* instance.parentId = this.id; this.children.push(instance)
Instance_addChild(h, this, instance) ==
    [ h EXCEPT ![instance].parentId = h[this].id,
               ![this].children = Append(@, instance) ]

Place_addInstance(h, this, instance) ==
    [ h EXCEPT ![instance].parentId = h[this].id,
               ![this].instances = Append(@, instance) ]

\* this.references.push(asset): no back-reference is set
Place_addReference(h, this, asset) ==
    [ h EXCEPT ![this].references = Append(@, asset) ]

Game_addAsset(h, this, asset) ==
    [ h EXCEPT ![asset].parentId = h[this].id,
               ![this].assets = Append(@, asset) ]

\* Mutant of Game_addPlace: the place is pushed without its back-reference.
Game_addPlaceNoBackReference(h, this, place) ==
    [ h EXCEPT ![this].assets = Append(@, place) ]

Game_addPlace(h, this, place) ==
    [ h EXCEPT ![place].parentId = h[this].id,
               ![this].assets = Append(@, place) ]

Inventory_addAsset(h, this, asset) ==
    [ h EXCEPT ![asset].parentId = h[this].id,
               ![this].assets = Append(@, asset) ]

Account_addGame(h, this, game) ==
    [ h EXCEPT ![game].accountId = h[this].id,
               ![this].games = Append(@, game) ]

\* new World()
NewWorld ==
    [ accounts |-> EmptyMap, gamesById |-> EmptyMap, assetsById |-> EmptyMap,
      placesById |-> EmptyMap, instancesById |-> EmptyMap, inventoriesById |-> EmptyMap ]

World_addAccount(w, h, account) ==
    [ w EXCEPT !.accounts = Put(@, h[account].id, account),
               !.inventoriesById = Put(@, h[h[account].inventory].id, h[account].inventory) ]

World_registerGame(w, h, game) == [ w EXCEPT !.gamesById = Put(@, h[game].id, game) ]

World_registerAsset(w, h, asset) == [ w EXCEPT !.assetsById = Put(@, h[asset].id, asset) ]

\* Mutant of World_registerPlace: the place is only indexed as an asset.
World_registerPlaceAsAssetOnly(w, h, place) ==
    [ w EXCEPT !.assetsById = Put(@, h[place].id, place) ]

World_registerPlace(w, h, place) ==
    [ w EXCEPT !.placesById = Put(@, h[place].id, place),
               !.assetsById = Put(@, h[place].id, place) ]

World_registerInstance(w, h, instance) ==
    [ w EXCEPT !.instancesById = Put(@, h[instance].id, instance) ]

\* Map.get on an index of the World: the reference stored, 0 for undefined.
World_get(m, id) == IF id \in DOMAIN m THEN m[id] ELSE 0

\* World.getNodeByScope on the World w; 0 for undefined and for null.
World_getNodeByScope(w, scope) ==
    CASE scope.type = "account"   -> World_get(w.accounts, scope.id)
      [] scope.type = "game"      -> World_get(w.gamesById, scope.id)
      [] scope.type = "inventory" -> World_get(w.inventoriesById, scope.id)
      [] scope.type = "place"     -> World_get(w.placesById, scope.id)
      [] scope.type = "asset"     -> World_get(w.assetsById, scope.id)
      [] scope.type = "instance"  -> World_get(w.instancesById, scope.id)
      [] OTHER                    -> 0

\* The statements of createSampleWorld.
Stmt(op, var, on, arg, id, name, arg3) ==
    [ op |-> op, var |-> var, on |-> on, arg |-> arg, id |-> id, name |-> name,
      arg3 |-> arg3 ]

\* const var = new Class(id, name, arg3)
New(class, var, id, name, arg3) == Stmt("new " \o class, var, "", "", id, name, arg3)

\* on.method(arg)
Call(method, on, arg) == Stmt(method, "", on, arg, "", "", "")

\* const var = new Class(...); parent.adder(var); world.register(var)
Node(class, var, id, name, arg3, adder, parent, register) ==
    << New(class, var, id, name, arg3), Call(adder, parent, var),
       Call(register, "world", var) >>

Part(var, id, name, type, parent) ==
    Node("Instance", var, id, name, type, "addChild", parent, "registerInstance")

Root(var, id, name, type, place) ==
    Node("Instance", var, id, name, type, "addInstance", place, "registerInstance")

Owned(var, id, name, type, owner) ==
    Node("Asset", var, id, name, type, "addAsset", owner, "registerAsset")

APlace(var, id, name, game) ==
    Node("Place", var, id, name, "", "addPlace", game, "registerPlace")

AGame(var, id, name, account) ==
    Node("Game", var, id, name, account, "addGame", account, "registerGame")

\* model.js:355-361, one turn of the loop
JumpPad(i) ==
    LET n == << "1", "2", "3", "4", "5", "6" >>[i] IN
    Part("plat", "l2-plat" \o n, "JumpPad" \o n, "part", "l2Workspace")

createSampleWorld ==
    << New("Account", "jimjam", "jimjam", "jimjam", ""),
       Call("addAccount", "world", "jimjam") >>
    \o AGame("obby", "obby", "Obby Adventure", "jimjam")
    \o APlace("lobby", "obby-lobby", "Main Lobby", "obby")
    \o Root("workspace", "lobby-workspace", "Workspace", "folder", "lobby")
    \o Part("spawn", "lobby-spawn", "SpawnLocation", "spawn", "workspace")
    \o Part("baseplate", "lobby-baseplate", "Baseplate", "part", "workspace")
    \o Part("startPortal", "lobby-portal", "StartPortal", "model", "workspace")
    \o Root("lighting", "lobby-light", "SunLight", "light", "lobby")
    \o Node("Asset", "lobbyScript", "obby-lobby-script", "LobbyManager", "script",
            "addReference", "lobby", "registerAsset")
    \o APlace("level1", "obby-level1", "Level 1", "obby")
    \o Root("l1Workspace", "l1-workspace", "Workspace", "folder", "level1")
    \o Part("platform1", "l1-plat1", "Platform1", "part", "l1Workspace")
    \o Part("platform2", "l1-plat2", "Platform2", "part", "l1Workspace")
    \o Part("platform3", "l1-plat3", "Platform3", "part", "l1Workspace")
    \o Part("checkpoint", "l1-checkpoint", "Checkpoint", "spawn", "l1Workspace")
    \o Part("finishLine", "l1-finish", "FinishLine", "model", "l1Workspace")
    \o APlace("level2", "obby-level2", "Level 2", "obby")
    \o Root("l2Workspace", "l2-workspace", "Workspace", "folder", "level2")
    \o JumpPad(1) \o JumpPad(2) \o JumpPad(3) \o JumpPad(4) \o JumpPad(5) \o JumpPad(6)
    \o Owned("gameManager", "obby-gm", "GameManager", "script", "obby")
    \o Owned("playerController", "obby-pc", "PlayerController", "script", "obby")
    \o AGame("fps", "fpsgame", "FPS Battle", "jimjam")
    \o APlace("arena", "fps-arena", "Arena", "fps")
    \o Root("arenaWS", "arena-ws", "Workspace", "folder", "arena")
    \o Part("ground", "arena-ground", "Ground", "part", "arenaWS")
    \o Part("wall1", "arena-wall1", "NorthWall", "part", "arenaWS")
    \o Part("wall2", "arena-wall2", "SouthWall", "part", "arenaWS")
    \o Part("spawnA", "arena-spawna", "TeamASpawn", "spawn", "arenaWS")
    \o Part("spawnB", "arena-spawnb", "TeamBSpawn", "spawn", "arenaWS")
    \o Owned("weaponScript", "fps-weapons", "WeaponSystem", "script", "fps")
    \o << Stmt("getInventory", "inv", "jimjam", "", "", "", "") >>
    \o Owned("uiKit", "pkg-ui", "UI Kit", "package", "inv")
    \o Owned("physicsUtils", "pkg-physics", "Physics Utils", "package", "inv")
    \o Owned("charRig", "mesh-char", "Character Rig", "mesh", "inv")
    \o Owned("treeModel", "mesh-tree", "Tree Model", "mesh", "inv")
    \o Owned("logo", "img-logo", "Logo", "image", "inv")
    \o Owned("skybox", "img-skybox", "Skybox", "image", "inv")
    \o Owned("bgMusic", "audio-bg", "Background Music", "audio", "inv")
    \o << New("Account", "studiodev", "studiodev", "studiodev", ""),
          Call("addAccount", "world", "studiodev") >>
    \o AGame("testGame", "testgame", "Test Experience", "studiodev")
    \o APlace("testPlace", "test-place", "Test Place", "testGame")
    \o Root("testWS", "test-ws", "Workspace", "folder", "testPlace")
    \o Part("testPart", "test-part", "TestPart", "part", "testWS")
    \o << Stmt("getInventory", "devInv", "studiodev", "", "", "", "") >>
    \o Owned("debugTools", "pkg-debug", "Debug Tools", "package", "devInv")

\* const world = new World(), before the first statement
BuildStart == [ pc |-> 1, env |-> EmptyMap, heap |-> << >>, world |-> NewWorld ]

\* The run B after its next statement.
Execute(B) ==
    LET st == createSampleWorld[B.pc]
        h == B.heap
        at == Len(h) + 1
        Made(obj) == [ B EXCEPT !.pc = @ + 1, !.heap = Append(h, obj),
                                !.env = Put(@, st.var, at) ]
        Heap(h2) == [ B EXCEPT !.pc = @ + 1, !.heap = h2 ]
        Indexed(w2) == [ B EXCEPT !.pc = @ + 1, !.world = w2 ]
    IN
    CASE st.op = "new Account" ->
            [ B EXCEPT !.pc = @ + 1,
                       !.heap = h \o << NewAccount(st.id, st.name, at + 1),
                                        NewInventory("inv-" \o st.id, st.id) >>,
                       !.env = Put(@, st.var, at) ]
      [] st.op = "new Game"     -> Made(NewGame(st.id, st.name, st.arg3))
      [] st.op = "new Place"    -> Made(NewPlace(st.id, st.name))
      [] st.op = "new Instance" -> Made(NewInstance(st.id, st.name, st.arg3))
      [] st.op = "new Asset"    -> Made(NewAsset(st.id, st.name, st.arg3))
      [] st.op = "getInventory" ->
            [ B EXCEPT !.pc = @ + 1, !.env = Put(@, st.var, h[B.env[st.on]].inventory) ]
      [] st.op = "addChild"     -> Heap(Instance_addChild(h, B.env[st.on], B.env[st.arg]))
      [] st.op = "addInstance"  -> Heap(Place_addInstance(h, B.env[st.on], B.env[st.arg]))
      [] st.op = "addReference" -> Heap(Place_addReference(h, B.env[st.on], B.env[st.arg]))
      [] st.op = "addPlace"     -> Heap(Game_addPlace(h, B.env[st.on], B.env[st.arg]))
      [] st.op = "addGame"      -> Heap(Account_addGame(h, B.env[st.on], B.env[st.arg]))
      [] st.op = "addAsset"     ->
            Heap(IF h[B.env[st.on]].class = "Game"
                 THEN Game_addAsset(h, B.env[st.on], B.env[st.arg])
                 ELSE Inventory_addAsset(h, B.env[st.on], B.env[st.arg]))
      [] st.op = "addAccount"       -> Indexed(World_addAccount(B.world, h, B.env[st.arg]))
      [] st.op = "registerGame"     -> Indexed(World_registerGame(B.world, h, B.env[st.arg]))
      [] st.op = "registerAsset"    -> Indexed(World_registerAsset(B.world, h, B.env[st.arg]))
      [] st.op = "registerPlace"    -> Indexed(World_registerPlace(B.world, h, B.env[st.arg]))
      [] st.op = "registerInstance" ->
            Indexed(World_registerInstance(B.world, h, B.env[st.arg]))

WorldInit ==
    /\ variant = "domain"
    /\ panels = EmptyState.panels
    /\ panelIdCounter = EmptyState.panelIdCounter
    /\ selectionByContext = EmptyState.sel
    /\ contextColors = EmptyState.colors
    /\ colorIndex = EmptyState.colorIndex
    /\ lastOp = NoOp
    /\ prevOp = NoOp
    /\ notified = << >>
    /\ lastSet = EmptyMap
    /\ touched = {}
    /\ issued = {}
    /\ closed = {}
    /\ formerKeys = EmptyMap
    /\ opCount = 0
    /\ query = << >>
    /\ reply = << BuildStart >>

\* The next statement of createSampleWorld
RunStatement ==
    /\ reply[1].pc <= Len(createSampleWorld)
    /\ reply' = << Execute(reply[1]) >>
    /\ UNCHANGED << variant, panels, panelIdCounter, selectionByContext, contextColors,
                    colorIndex, lastOp, prevOp, notified, lastSet, touched, issued,
                    closed, formerKeys, query, opCount >>

WorldNext == RunStatement

WorldSpec == WorldInit /\ [][WorldNext]_vars

\* createSampleWorld has returned: reply[1].world is the world the page uses.
Built == reply[1].pc = Len(createSampleWorld) + 1

\* The instances held, at any depth, under the instances S.
RECURSIVE Descendants(_, _)
Descendants(h, S) ==
    IF S = {} THEN {}
    ELSE S \cup Descendants(h, UNION { Range(h[i].children) : i \in S })

\* What is reachable from the accounts of the run B, kind by kind.
ReachAccounts(B) == { B.world.accounts[id] : id \in DOMAIN B.world.accounts }

ReachInventories(B) == { B.heap[a].inventory : a \in ReachAccounts(B) }

ReachGames(B) == UNION { Range(B.heap[a].games) : a \in ReachAccounts(B) }

ReachAssets(B) ==
    UNION { Range(B.heap[o].assets) : o \in ReachGames(B) \cup ReachInventories(B) }

ReachPlaces(B) == { p \in ReachAssets(B) : B.heap[p].type = "place" }

ReachReferences(B) == UNION { Range(B.heap[p].references) : p \in ReachPlaces(B) }

ReachInstances(B) ==
    Descendants(B.heap, UNION { Range(B.heap[p].instances) : p \in ReachPlaces(B) })

\* The objects an object holds in its child arrays (references are not owned).
Held(o) ==
    Range(o.games) \cup Range(o.assets) \cup Range(o.instances) \cup Range(o.children)

-----------------------------------------------------------------------------
(* Vocabulary of the properties *)

\* Every context key the handlers of a page can derive in this model.
WindowsKeys == { getContextKey("windows", sc, "Edit") : sc \in {"Game", "Asset"} }

TuplesKeys == { getContextKey("tuples", sc, st) : sc \in Range(SCOPES), st \in Range(STATES) }

DomainKeys ==
    { getContextKey("domain", sc, st) :
        sc \in { lobbyScope, obbyScope, invScope, createScope("asset", "obby-gm") },
        st \in Range(STATES) }

AllKeys(v) ==
    CASE v = "windows" -> WindowsKeys
      [] v = "tuples"  -> TuplesKeys
      [] v = "domain"  -> DomainKeys

Selected(k) == SelectedIn(variant, selectionByContext, k)

SelectionOp == lastOp.op \in {"setSelection", "toggleSelection"}

\* How often the last handler ran the closure of panel id.
TimesNotified(id) == Cardinality({ n \in 1..Len(notified) : notified[n].id = id })

\* Positions of the panels bound to key k / of those that registered a closure.
BoundTo(k) == { i \in 1..Len(panels) : panels[i].contextKey = k }

Listening(k) == { i \in BoundTo(k) : panels[i].onSelectionChange # NULL }

\* The items panel p can mark as selected.
Displayable(p) ==
    IF p.onSelectionChange = "render" THEN Range(PropertiesSource(variant, p))
    ELSE Range(Items(variant, p))

-----------------------------------------------------------------------------
(* C1  Isolation.  A setSelection or toggleSelection on key K1 leaves the  *)
(* store entry of every other key K2, and what getSelection(K2) returns,   *)
(* exactly as before the call.                                             *)
C1_Isolation ==
    [][ lastOp'.op \in {"setSelection", "toggleSelection"} =>
          \A k \in AllKeys(variant) \ {lastOp'.key} :
             /\ SelectedIn(variant, selectionByContext', k)
                  = SelectedIn(variant, selectionByContext, k)
             /\ (k \in DOMAIN selectionByContext') = (k \in DOMAIN selectionByContext)
             /\ k \in DOMAIN selectionByContext => selectionByContext'[k] = selectionByContext[k]
      ]_vars

\* A selection was just made in one context while another context holds one.
C1_Witness ==
    /\ SelectionOp
    /\ lastOp.item # NULL
    /\ Selected(lastOp.key) = lastOp.item
    /\ \E k \in AllKeys(variant) \ {lastOp.key} : Selected(k) # NULL

(* C2  Sharing, as claimed: after setSelection(K, X) every open panel      *)
(* bound to K has had its callback invoked exactly once.                   *)
C2_EveryPanelOnce ==
    lastOp.op = "setSelection" =>
        \A i \in BoundTo(lastOp.key) : TimesNotified(panels[i].id) = 1

(* C2  Sharing, amended: after setSelection(K, X) every open panel bound   *)
(* to K that registered a callback has had it invoked exactly once, a      *)
(* panel of K without one not at all, and getSelection(K) is X for each.   *)
C2_Sharing ==
    lastOp.op = "setSelection" =>
        /\ \A i \in Listening(lastOp.key) : TimesNotified(panels[i].id) = 1
        /\ \A i \in BoundTo(lastOp.key) \ Listening(lastOp.key) :
              TimesNotified(panels[i].id) = 0
        /\ \A i \in BoundTo(lastOp.key) : Selected(panels[i].contextKey) = lastOp.item

\* setSelection on a registry that was just changed, reaching two listeners
\* and passing over a panel of the same context that has no callback.
C2_Witness ==
    /\ lastOp.op = "setSelection"
    /\ lastOp.item # NULL
    /\ prevOp.op \in {"createPanel", "removePanel", "updatePanelState", "updatePanelContext"}
    /\ Cardinality(Listening(lastOp.key)) >= 2
    /\ BoundTo(lastOp.key) # Listening(lastOp.key)

(* C3  Notification isolation.  Every callback a broadcast for key K runs  *)
(* belongs to a panel whose contextKey is K; handlers that do not mutate   *)
(* the store broadcast nothing.                                            *)
C3_NotificationIsolation ==
    \A n \in 1..Len(notified) :
        IF SelectionOp
        THEN /\ notified[n].via = "broadcast"
             /\ notified[n].key = lastOp.key
             /\ \E i \in BoundTo(lastOp.key) : panels[i].id = notified[n].id
        ELSE notified[n].via = "render"

\* A broadcast right after a reassignment, with a listener in another context.
C3_Witness ==
    /\ SelectionOp
    /\ prevOp.op \in {"updatePanelState", "updatePanelContext"}
    /\ prevOp.key = lastOp.key
    /\ Len(notified) >= 2
    /\ \E i \in 1..Len(panels) :
          panels[i].contextKey # lastOp.key /\ panels[i].onSelectionChange # NULL

(* C4  Synchronous broadcast.  When a setSelection or toggleSelection on K *)
(* has returned, the store holds the value the call asked for, the         *)
(* callbacks of exactly the listeners of K have run, in registry order,    *)
(* and each of them read the value just written, also when that value      *)
(* equals the previous one.                                                *)
C4_WriteThenBroadcast ==
    SelectionOp =>
        /\ Selected(lastOp.key) =
              IF lastOp.op = "toggleSelection" /\ lastOp.before = lastOp.item
              THEN NULL ELSE lastOp.item
        /\ [ n \in 1..Len(notified) |-> notified[n].id ]
              = [ n \in 1..Cardinality(Listening(lastOp.key)) |->
                    panels[CHOOSE i \in Listening(lastOp.key) :
                             Cardinality({ j \in Listening(lastOp.key) : j < i }) = n - 1].id ]
        /\ \A n \in 1..Len(notified) : notified[n].seen = Selected(lastOp.key)

\* A setSelection of the item that was already selected still broadcasts.
C4_Witness ==
    /\ lastOp.op = "setSelection"
    /\ lastOp.item # NULL
    /\ lastOp.before = lastOp.item
    /\ Len(notified) >= 2

C6_SingleSelection ==
    \A k \in DOMAIN selectionByContext :
        IF variant = "domain"
        THEN selectionByContext[k] \in ItemIds \cup {NULL}
        ELSE /\ Len(selectionByContext[k]) <= 1
             /\ Range(selectionByContext[k]) \subseteq ItemIds

\* An item was selected where another one had been: still one element.
C6_Witness ==
    /\ variant # "domain"
    /\ SelectionOp
    /\ lastOp.item # NULL
    /\ lastOp.before \notin {NULL, lastOp.item}
    /\ selectionByContext[lastOp.key] = << lastOp.item >>

(* C7  Last write wins.  For every key K on which setSelection was ever    *)
(* called, getSelection(K) returns the item of the most recent such call,  *)
(* and null if that call passed null.                                      *)
C7_LastWriteWins ==
    \A k \in DOMAIN lastSet : Selected(k) = lastSet[k]

\* setSelection(K, null) after setSelection(K, x), with other handlers run since
\* the latest setSelection on some key that holds an item.
C7_Witness ==
    /\ lastOp.op = "setSelection"
    /\ lastOp.item = NULL
    /\ lastOp.before # NULL
    /\ Selected(lastOp.key) = NULL
    /\ \E k \in DOMAIN lastSet : k # lastOp.key /\ lastSet[k] # NULL

(* C8  Toggle cancels itself.  After two consecutive toggleSelection(K, a) *)
(* calls K's selection is empty if a was not selected before the first,    *)
(* and is a again if it was.                                               *)
C8_ToggleTwice ==
    ( /\ lastOp.op = "toggleSelection"
      /\ prevOp.op = "toggleSelection"
      /\ prevOp.key = lastOp.key
      /\ prevOp.item = lastOp.item )
    => IF prevOp.before = lastOp.item
       THEN selectionByContext[lastOp.key] = << lastOp.item >>
       ELSE selectionByContext[lastOp.key] = << >>

\* b was selected, then a was toggled twice: nothing is selected.
C8_Witness ==
    /\ lastOp.op = "toggleSelection"
    /\ prevOp.op = "toggleSelection"
    /\ prevOp.key = lastOp.key
    /\ prevOp.item = lastOp.item
    /\ prevOp.before \notin {NULL, lastOp.item}
    /\ Selected(lastOp.key) = NULL

(* C9  Toggle is not additive.  After toggleSelection(K, a) followed by    *)
(* toggleSelection(K, b), a and b distinct, exactly b is selected in K.    *)
C9_ToggleReplaces ==
    ( /\ lastOp.op = "toggleSelection"
      /\ prevOp.op = "toggleSelection"
      /\ prevOp.key = lastOp.key
      /\ prevOp.item # lastOp.item )
    => /\ selectionByContext[lastOp.key] = << lastOp.item >>
       /\ isSelected(selectionByContext, lastOp.key, lastOp.item)
       /\ ~isSelected(selectionByContext, lastOp.key, prevOp.item)
       /\ getSelectedItem(selectionByContext, lastOp.key) = lastOp.item

\* a was toggled on, then b: a window of the context shows only b.
C9_Witness ==
    /\ lastOp.op = "toggleSelection"
    /\ prevOp.op = "toggleSelection"
    /\ prevOp.key = lastOp.key
    /\ prevOp.item # lastOp.item
    /\ lastOp.before = prevOp.item
    /\ \E i \in BoundTo(lastOp.key) : panels[i].shown = {lastOp.item}

\* The item ids of the Set-based pages.
SetPageItemIds == Range(demoObjects) \cup Range(assetObjects) \cup Range(objects)

\* The store after a read of key k.
StoreAfterRead(v, sel, k) == IF v = "domain" THEN sel ELSE getSelection(sel, k)

(* C10  Reading an untouched context.  For a key never passed to           *)
(* setSelection or toggleSelection, getSelection / getSelectedItem return  *)
(* the empty value and isSelected is false, whether or not a read has      *)
(* created an entry for it; the read leaves what getSelection returns for  *)
(* every key unchanged; and a handler that only reads runs no broadcast.   *)
C10_UntouchedRead ==
    /\ \A k \in AllKeys(variant) \ touched :
          LET after == StoreAfterRead(variant, selectionByContext, k) IN
          /\ Selected(k) = NULL
          /\ variant # "domain" =>
                /\ \A item \in SetPageItemIds : ~isSelected(selectionByContext, k, item)
                /\ k \in DOMAIN selectionByContext => selectionByContext[k] = << >>
          /\ after # selectionByContext =>
                \A k2 \in AllKeys(variant) : SelectedIn(variant, after, k2) = Selected(k2)
    /\ ~SelectionOp => \A n \in 1..Len(notified) : notified[n].via = "render"

\* A Properties panel was just opened on a never-selected context: its first
\* render read the key and left an entry, while another context holds an item.
C10_Witness ==
    /\ lastOp.op = "createPanel"
    /\ lastOp.key \notin touched
    /\ lastOp.key \in DOMAIN selectionByContext
    /\ prevOp.op # "load"
    /\ Len(notified) = 1
    /\ Selected(lastOp.key) = NULL
    /\ \E k \in touched : Selected(k) # NULL

(* C11  Opening a panel reflects the current selection, as claimed: when   *)
(* createPanel opens a panel in a context whose selection is an item X,    *)
(* the new panel's onSelectionChange is invoked once during createPanel,   *)
(* and when createPanel has returned the new panel shows X as selected.    *)
C11_OpenReflectsSelection ==
    ( lastOp.op = "createPanel" /\ lastOp.before # NULL ) =>
        LET p == panels[Len(panels)] IN
        /\ p.id = lastOp.id
        /\ TimesNotified(p.id) = 1
        /\ p.shown = {lastOp.before}

(* C12  Selection survives the panel lifecycle.  A handler other than      *)
(* setSelection / toggleSelection (createPanel, removePanel, the           *)
(* reassignment) leaves what getSelection returns for every key, and every *)
(* entry the store holds, as it was; setSelection / toggleSelection on K   *)
(* changes no key but K.  So a context whose last panel was closed still   *)
(* holds its selection.                                                    *)
C12_SelectionSurvives ==
    [][ \A k \in AllKeys(variant) :
          ( lastOp'.op \notin {"setSelection", "toggleSelection"} \/ lastOp'.key # k ) =>
             /\ SelectedIn(variant, selectionByContext', k)
                  = SelectedIn(variant, selectionByContext, k)
             /\ k \in DOMAIN selectionByContext =>
                  /\ k \in DOMAIN selectionByContext'
                  /\ selectionByContext'[k] = selectionByContext[k]
      ]_vars

\* The only panel of a context with a selection was closed, then a Properties
\* panel was opened on that context: it shows the old selection.
C12_Witness ==
    /\ lastOp.op = "createPanel"
    /\ prevOp.op = "removePanel"
    /\ prevOp.key = lastOp.key
    /\ prevOp.before # NULL
    /\ Cardinality(BoundTo(lastOp.key)) = 1
    /\ panels[Len(panels)].contextKey = lastOp.key
    /\ panels[Len(panels)].shown = {prevOp.before}
    /\ Selected(lastOp.key) = prevOp.before

\* The context a panel's fields place it in.
ContextOf(p) == getContextKey(variant, p.scope, p.state)

ReassignOps == { "updatePanelState", "updatePanelContext" }

\* Panel fields a handler can change besides what the panel shows.
SameButView(p, q) ==
    /\ p.id = q.id
    /\ p.scope = q.scope
    /\ p.state = q.state
    /\ p.presentation = q.presentation
    /\ p.contextKey = q.contextKey
    /\ p.color = q.color

(* C14  Reassignment changes only the State axis, as claimed: a reassign   *)
(* step leaves the panel's id, scope and presentation unchanged, sets its  *)
(* contextKey to the key derived from (unchanged scope, new state), leaves *)
(* the registry's membership and order and every other panel unchanged;    *)
(* and no handler ever changes the scope of a panel.                       *)
C14_OnlyStateAxis ==
    [][ /\ lastOp'.op \in ReassignOps =>
            /\ Len(panels') = Len(panels)
            /\ \A j \in 1..Len(panels) :
                  IF panels[j].id = lastOp'.id
                  THEN /\ panels'[j].id = panels[j].id
                       /\ panels'[j].scope = panels[j].scope
                       /\ panels'[j].presentation = panels[j].presentation
                       /\ panels'[j].contextKey = lastOp'.key
                       /\ panels'[j].contextKey
                            = getContextKey(variant, panels[j].scope, panels'[j].state)
                  ELSE panels'[j] = panels[j]
        /\ \A i \in 1..Len(panels), j \in 1..Len(panels') :
              panels'[j].id = panels[i].id => panels'[j].scope = panels[i].scope
      ]_vars

(* C14  Reassignment, amended: a reassign step leaves the panel's id and   *)
(* presentation unchanged; updatePanelState leaves its scope unchanged and *)
(* derives contextKey from (unchanged scope, new state), updatePanelContext*)
(* sets scope and state to the chosen values and derives contextKey from   *)
(* them; the registry's membership and order and every other panel are     *)
(* unchanged; no handler but updatePanelContext changes a panel's scope.   *)
C14_ReassignFrame ==
    [][ /\ lastOp'.op \in ReassignOps =>
            /\ Len(panels') = Len(panels)
            /\ \A j \in 1..Len(panels) :
                  IF panels[j].id = lastOp'.id
                  THEN /\ panels'[j].id = panels[j].id
                       /\ lastOp'.op = "updatePanelState" =>
                             panels'[j].scope = panels[j].scope
                       /\ panels'[j].presentation = panels[j].presentation
                       /\ panels'[j].contextKey = lastOp'.key
                       /\ panels'[j].contextKey
                            = getContextKey(variant, panels'[j].scope, panels'[j].state)
                  ELSE panels'[j] = panels[j]
        /\ \A i \in 1..Len(panels), j \in 1..Len(panels') :
              ( panels'[j].id = panels[i].id
                /\ ~( lastOp'.op = "updatePanelContext" /\ lastOp'.id = panels[i].id ) )
              => panels'[j].scope = panels[i].scope
      ]_vars

\* A panel in the middle of the registry was just reassigned while a panel of
\* another context shows a selection.
C14_Witness ==
    /\ lastOp.op \in ReassignOps
    /\ \E i \in 1..(Len(panels) - 1) :
          /\ panels[i].id = lastOp.id
          /\ panels[i].contextKey = lastOp.key
          /\ panels[i].id \in DOMAIN formerKeys
          /\ lastOp.key \notin formerKeys[panels[i].id]
          /\ \E j \in 1..Len(panels) :
                panels[j].contextKey # lastOp.key /\ panels[j].shown # {}

(* C15  Closed is terminal.  A panel removePanel has closed is not in the  *)
(* registry, no later handler invokes its callback, and no later handler   *)
(* (open, reassign, close, select) brings a panel with its id back.        *)
C15_ClosedIsTerminal ==
    \A id \in closed :
        /\ id \notin OpenIds
        /\ TimesNotified(id) = 0
        /\ id \in issued

\* A panel was closed and then an item was selected in the context it was bound
\* to: the panels left there were notified.
C15_Witness ==
    /\ lastOp.op = "setSelection"
    /\ prevOp.op = "removePanel"
    /\ prevOp.key = lastOp.key
    /\ prevOp.id \in closed
    /\ Len(notified) >= 1
    /\ Len(panels) >= 1

(* C16  Panel ids are unique and monotonic.  No two panels of the registry *)
(* share an id and ids grow along the registry; every createPanel step     *)
(* adds exactly one panel, at the end, whose id is greater than every id   *)
(* issued before, closed panels' ids included; no other step adds a panel. *)
C16_UniqueMonotonicIds ==
    /\ [](\A i, j \in 1..Len(panels) : i < j => panels[i].id < panels[j].id)
    /\ [][ IF lastOp'.op = "createPanel"
            THEN /\ Len(panels') = Len(panels) + 1
                 /\ SubSeq(panels', 1, Len(panels)) = panels
                 /\ \A id \in issued : panels'[Len(panels')].id > id
                 /\ panels'[Len(panels')].id \notin closed
            ELSE { panels'[j].id : j \in 1..Len(panels') } \subseteq OpenIds
       ]_vars

\* A panel was opened after a panel with a smaller id had been closed: the new
\* id is above every id issued, and the registry is shorter than that id.
C16_Witness ==
    /\ lastOp.op = "createPanel"
    /\ closed # {}
    /\ panels[Len(panels)].id = lastOp.id
    /\ \A id \in issued \ {lastOp.id} : id < lastOp.id
    /\ Len(panels) < lastOp.id

(* C17  Key injectivity.  For any two (scope, state) pairs drawn from the  *)
(* supported scope kinds, the registered node ids and the states,          *)
(* getContextKey returns the same key only if the pairs are equal (same    *)
(* kind, same id, same state), in the "scope-state" and in the             *)
(* "type:id|state" derivation.                                             *)
C17_KeyInjectivity ==
    ( Len(reply) = 1 /\ query[1].fn = "getContextKey" ) =>
        ( reply[1].keys[1] = reply[1].keys[2] => query[1].a = query[1].b )

\* Two pairs that differ in the scope kind alone (a place is also registered as
\* an asset under the same id) were given different keys.
C17_Witness ==
    /\ Len(reply) = 1
    /\ query[1].fn = "getContextKey"
    /\ variant = "domain"
    /\ query[1].a.scope.type # query[1].b.scope.type
    /\ query[1].a.scope.id = query[1].b.scope.id
    /\ query[1].a.scope.id \in DOMAIN world.placesById
    /\ { query[1].a.scope.type, query[1].b.scope.type } = { "place", "asset" }
    /\ query[1].a.state = query[1].b.state
    /\ reply[1].keys[1] # reply[1].keys[2]

\* The index of the world that holds the nodes of a kind.
IndexOf(kind) ==
    CASE kind = "account"   -> world.accounts
      [] kind = "game"      -> world.gamesById
      [] kind = "inventory" -> world.inventoriesById
      [] kind = "place"     -> world.placesById
      [] kind = "asset"     -> world.assetsById
      [] kind = "instance"  -> world.instancesById

\* The scope names no node: unknown kind, or an id its kind's index lacks.
Unresolvable(scope) ==
    scope.type \notin ScopeKinds \/ scope.id \notin DOMAIN IndexOf(scope.type)

(* C19  A lookup miss is a value.  For a scope whose kind is unknown or    *)
(* whose id is not in the index of its kind, getNodeByScope returns an     *)
(* absent value (null or undefined), getChildrenForScope returns the empty *)
(* sequence and scopeLabel returns the fallback text "type:id"; no call    *)
(* raises.                                                                 *)
C19_LookupMiss ==
    ( Len(reply) = 1 /\ query[1].fn = "lookup" /\ Unresolvable(query[1].scope) ) =>
        /\ reply[1].node \in { NULL, UNDEFINED }
        /\ reply[1].node = IF query[1].scope.type \in ScopeKinds THEN UNDEFINED ELSE NULL
        /\ reply[1].children = << >>
        /\ reply[1].children # THROWS
        /\ reply[1].label = query[1].scope.type \o ":" \o query[1].scope.id

\* A lookup of an id that is registered, under a kind whose index lacks it.
C19_Witness ==
    /\ Len(reply) = 1
    /\ query[1].fn = "lookup"
    /\ query[1].scope.type \in ScopeKinds
    /\ query[1].scope.id \in NodeIds
    /\ Unresolvable(query[1].scope)
    /\ reply[1].node = UNDEFINED
    /\ reply[1].children = << >>

(* C20  Operations on an unknown panel are silent no-ops.  removePanel and *)
(* the reassignment, called with an id that was never issued or that       *)
(* belongs to a closed panel, return normally and leave the registry,      *)
(* every panel's fields, the selection store, the colour table and the id  *)
(* counter unchanged, and invoke no callback.                              *)
C20_UnknownPanelNoOp ==
    [][ ( lastOp'.op \in ReassignOps \cup {"removePanel"} /\ lastOp'.id \notin OpenIds ) =>
          /\ panels' = panels
          /\ panelIdCounter' = panelIdCounter
          /\ selectionByContext' = selectionByContext
          /\ contextColors' = contextColors
          /\ colorIndex' = colorIndex
          /\ notified' = << >>
      ]_vars

\* A panel was closed and removePanel or the reassignment was then called with
\* its id again, while panels are open and a context holds a selection.
C20_Witness ==
    /\ lastOp.op \in ReassignOps \cup {"removePanel"}
    /\ lastOp.id \in closed
    /\ lastOp.id \notin OpenIds
    /\ prevOp.op = "removePanel"
    /\ prevOp.id = lastOp.id
    /\ Len(panels) >= 1
    /\ \E k \in AllKeys(variant) : Selected(k) # NULL

(* C22  A reassigned panel shows the new context's selection, as claimed:  *)
(* right after a panel was reassigned into a context whose selection is an *)
(* item Y (here: an item the panel displays), the panel shows Y as         *)
(* selected, before any further setSelection on that context.              *)
C22_ReassignedShowsSelection ==
    ( lastOp.op \in ReassignOps /\ lastOp.before # NULL ) =>
        \A i \in 1..Len(panels) :
            ( panels[i].id = lastOp.id /\ lastOp.before \in Displayable(panels[i]) )
            => panels[i].shown = {lastOp.before}

C25_CallbacklessSkipped ==
    /\ \A i \in 1..Len(panels) :
          panels[i].onSelectionChange = NULL =>
             /\ TimesNotified(panels[i].id) = 0
             /\ panels[i].shown = {}
    /\ SelectionOp =>
          ( BoundTo(lastOp.key) # Listening(lastOp.key) =>
               /\ \A i \in Listening(lastOp.key) : TimesNotified(panels[i].id) = 1
               /\ Len(notified) = Cardinality(Listening(lastOp.key)) )

\* A Viewport over a game (no callback) sits in the registry between two
\* listeners of its context; an item was selected and both were notified.
C25_Witness ==
    /\ lastOp.op = "setSelection"
    /\ lastOp.item # NULL
    /\ \E i \in BoundTo(lastOp.key) \ Listening(lastOp.key) :
          /\ panels[i].presentation = "Viewport"
          /\ panels[i].note = "Viewport only available for Places"
          /\ \E a, b \in Listening(lastOp.key) :
                /\ a < i
                /\ i < b
                /\ TimesNotified(panels[a].id) = 1
                /\ TimesNotified(panels[b].id) = 1

(* C26  Context key consistency.  In every reachable state the contextKey  *)
(* stored in each panel of the registry is the key getContextKey derives   *)
(* from the panel's current scope and state, whatever creates, reassigns   *)
(* and closes came before.                                                 *)
C26_KeyConsistency ==
    \A i \in 1..Len(panels) :
        panels[i].contextKey = getContextKey(variant, panels[i].scope, panels[i].state)

\* A panel was reassigned twice and another panel was closed: the panel's key
\* is the key of the scope and state it has now, not one it had before.
C26_Witness ==
    /\ closed # {}
    /\ \E i \in 1..Len(panels) :
          /\ panels[i].id \in DOMAIN formerKeys
          /\ Cardinality(formerKeys[panels[i].id]) = 2
          /\ panels[i].contextKey \notin formerKeys[panels[i].id]
          /\ panels[i].contextKey = ContextOf(panels[i])

(* C27  Context colour is stable and shared.  On the pages that colour     *)
(* contexts, each panel's colour is the colour recorded for its current    *)
(* contextKey, so two panels of one context have the same colour; and a    *)
(* colour recorded for a key is never replaced or removed by any handler.  *)
C27_ColourStableShared ==
    /\ [](variant # "windows" =>
            /\ \A i \in 1..Len(panels) :
                  /\ panels[i].contextKey \in DOMAIN contextColors
                  /\ panels[i].color = contextColors[panels[i].contextKey]
            /\ \A i, j \in 1..Len(panels) :
                  panels[i].contextKey = panels[j].contextKey =>
                     panels[i].color = panels[j].color)
    /\ [][ \A k \in DOMAIN contextColors :
              /\ k \in DOMAIN contextColors'
              /\ contextColors'[k] = contextColors[k] ]_vars

\* The only panel of a context was closed and a panel was then opened in that
\* context: it has the colour the context was given at first, which no other
\* context has.
C27_Witness ==
    /\ lastOp.op = "createPanel"
    /\ prevOp.op = "removePanel"
    /\ prevOp.key = lastOp.key
    /\ BoundTo(lastOp.key) = { Len(panels) }
    /\ panels[Len(panels)].color = contextColors[lastOp.key]
    /\ \A k \in DOMAIN contextColors \ {lastOp.key} :
          contextColors[k] # contextColors[lastOp.key]
    /\ colorIndex = Cardinality(DOMAIN contextColors)

(* C28  Broadcast order is registry order.  The callbacks one broadcast    *)
(* runs are those of panels at increasing registry positions, which is the *)
(* order the panels were created in (increasing ids); and across every     *)
(* step two panels that stay in the registry keep their relative order,    *)
(* whether the step closes or reassigns a panel or does anything else.     *)
C28_BroadcastInRegistryOrder ==
    /\ [](SelectionOp =>
            \A m, n \in 1..Len(notified) : m < n =>
                /\ notified[m].id < notified[n].id
                /\ \E i, j \in 1..Len(panels) :
                      /\ i < j
                      /\ panels[i].id = notified[m].id
                      /\ panels[j].id = notified[n].id)
    /\ [][ \A i, j \in 1..Len(panels) : \A a, b \in 1..Len(panels') :
              ( i < j /\ panels'[a].id = panels[i].id /\ panels'[b].id = panels[j].id )
              => a < b ]_vars

\* A broadcast reached two panels right after a panel created between them had
\* been closed: the later of the two moved up one position and is still second.
C28_Witness ==
    /\ SelectionOp
    /\ Len(notified) = 2
    /\ prevOp.op = "removePanel"
    /\ notified[1].id < prevOp.id
    /\ prevOp.id < notified[2].id
    /\ \E j \in 1..Len(panels) : panels[j].id = notified[2].id /\ j < notified[2].id

(* C29  Round-robin colour assignment.  colorIndex equals the number of    *)
(* distinct context keys getContextColor has been called with; the n-th    *)
(* distinct key, in order of first call, has and is returned               *)
(* CONTEXT_COLORS[(n-1) mod 8]; while at most 8 distinct keys have been    *)
(* seen, distinct keys have distinct colours, and the 9th distinct key has *)
(* the colour of the first.                                                *)
C29_RoundRobinColours ==
    /\ colorIndex = Len(query)
    /\ DOMAIN contextColors = Range(query)
    /\ \A n \in 1..Len(query) :
          contextColors[query[n]] = CONTEXT_COLORS[((n - 1) % 8) + 1]
    /\ Len(query) <= 8 =>
          \A m, n \in 1..Len(query) :
              m # n => contextColors[query[m]] # contextColors[query[n]]
    /\ Len(query) >= 9 => contextColors[query[9]] = contextColors[query[1]]
    /\ \A r \in Range(reply) : r.color = contextColors[r.key]

\* The 9th distinct key has just been passed, after an earlier key had been
\* passed again, and was returned the first colour of the palette; the keys
\* did not arrive in the page's own order.
C29_Witness ==
    /\ Len(query) = 9
    /\ reply = << [ key |-> query[9], color |-> CONTEXT_COLORS[1] ] >>
    /\ contextColors[query[1]] = CONTEXT_COLORS[1]
    /\ query # Take(ColourKeys(variant), 9)
    /\ Cardinality({ contextColors[k] : k \in DOMAIN contextColors }) = 8

(* C23  The two store variants are equivalent.  After every setSelection   *)
(* call made on both stores, with an item id or null, getSelectedItem of   *)
(* the Set-based store and getSelection of the single-id store agree on    *)
(* every key, and the two broadcasts ran the closures of the same panels,  *)
(* the same number of times, each closure being told the same selection.   *)
C23_StoresEquivalent ==
    /\ \A k \in StoreKeys :
          getSelectedItem(reply[1].sel, k) = getSelectionDomain(selectionByContext, k)
    /\ Len(reply[1].log) = Len(notified)
    /\ \A n \in 1..Len(notified) :
          /\ reply[1].log[n].id = notified[n].id
          /\ reply[1].log[n].seen = notified[n].seen

\* A key that held an item was set to null, which notified several panels on
\* both sides, while another key still holds an item; the Set-based store
\* holds an empty Set where the single-id store holds null.
C23_Witness ==
    /\ lastOp.op = "setSelection"
    /\ lastOp.item = NULL
    /\ lastOp.before # NULL
    /\ Len(notified) >= 2
    /\ Len(reply[1].log) >= 2
    /\ \E k \in StoreKeys : getSelectedItem(reply[1].sel, k) # NULL
    /\ reply[1].sel[lastOp.key] = << >>
    /\ selectionByContext[lastOp.key] = NULL

(* C21  Domain index completeness.  In the world createSampleWorld         *)
(* returns, every account, inventory, game, place, instance at any depth,  *)
(* game or inventory asset and place-referenced asset reachable from the   *)
(* accounts is what getNodeByScope returns for its own kind and id; and no *)
(* statement, hence no World operation, removes an id from any index.      *)
C21_IndexComplete ==
    /\ [](Built =>
            LET B == reply[1]
                Resolves(kind, S) ==
                    \A o \in S :
                        World_getNodeByScope(B.world, createScope(kind, B.heap[o].id)) = o
            IN  /\ Resolves("account", ReachAccounts(B))
                /\ Resolves("inventory", ReachInventories(B))
                /\ Resolves("game", ReachGames(B))
                /\ Resolves("place", ReachPlaces(B))
                /\ Resolves("instance", ReachInstances(B))
                /\ Resolves("asset", ReachAssets(B) \cup ReachReferences(B)))
    /\ [][ /\ DOMAIN reply[1].world.accounts \subseteq DOMAIN reply'[1].world.accounts
           /\ DOMAIN reply[1].world.gamesById \subseteq DOMAIN reply'[1].world.gamesById
           /\ DOMAIN reply[1].world.assetsById \subseteq DOMAIN reply'[1].world.assetsById
           /\ DOMAIN reply[1].world.placesById \subseteq DOMAIN reply'[1].world.placesById
           /\ DOMAIN reply[1].world.instancesById
                 \subseteq DOMAIN reply'[1].world.instancesById
           /\ DOMAIN reply[1].world.inventoriesById
                 \subseteq DOMAIN reply'[1].world.inventoriesById ]_vars

\* The world is built: two accounts, an instance nested under another instance
\* resolves, and so does an asset that is reachable only as a place's reference.
C21_Witness ==
    /\ Built
    /\ Cardinality(ReachAccounts(reply[1])) = 2
    /\ \E i \in ReachInstances(reply[1]) :
          /\ reply[1].heap[i].parentId \in DOMAIN reply[1].world.instancesById
          /\ reply[1].world.instancesById[reply[1].heap[i].id] = i
    /\ \E r \in ReachReferences(reply[1]) \ ReachAssets(reply[1]) :
          reply[1].world.assetsById[reply[1].heap[r].id] = r
    /\ Cardinality(ReachInstances(reply[1])) = Cardinality(DOMAIN reply[1].world.instancesById)

(* C30  Back-references match ownership.  Every object held in the games   *)
(* of an account, the assets of a game or inventory, the instances of a    *)
(* place or the children of an instance has its back-reference (accountId  *)
(* for a game, parentId otherwise) equal to the holder's id, and no object *)
(* is held in the child arrays of two different holders.                   *)
C30_BackReferences ==
    LET h == reply[1].heap IN
    /\ \A p \in 1..Len(h) : \A c \in Held(h[p]) :
          (IF h[c].class = "Game" THEN h[c].accountId ELSE h[c].parentId) = h[p].id
    /\ \A p, q \in 1..Len(h) : p # q => Held(h[p]) \cap Held(h[q]) = {}

\* The world is built: an instance is held by an instance that a place holds, a
\* place is held by a game that an account holds, and the asset a place only
\* references has no parent.
C30_Witness ==
    LET h == reply[1].heap IN
    /\ Built
    /\ \E a, g, p, i, c \in 1..Len(h) :
          /\ g \in Range(h[a].games) /\ h[a].class = "Account"
          /\ p \in Range(h[g].assets) /\ h[p].class = "Place"
          /\ i \in Range(h[p].instances)
          /\ c \in Range(h[i].children)
          /\ h[c].parentId = h[i].id
          /\ \E r \in Range(h[p].references) : h[r].parentId = NULL

====
